---- MODULE Spec2Model ----
EXTENDS Integers, Sequences, FiniteSets, TLC

\* Model of the update orchestration core of aktualizr-lite:
\*   RootfsTreeManager::Download / install / verifyBootloaderUpdate
\*   (src/src/rootfstreemanager.cc), LiteInstall::Download (src/src/api.cc)
\*   and the download stage of aklite::cli::Install (src/unnamed/part_001),
\*   Docker::RegistryClient::downloadBlob, Docker::Uri::parseUri and
\*   Docker::HashedDigest (src/src/docker.cc), AkliteClient::CheckIn and
\*   CheckInResult::GetLatest (src/src/api.cc), aklite::cli::Install and
\*   aklite::cli::CompleteInstall as a whole (src/unnamed/part_001),
\*   RootfsTreeManager::Config::Config, canDeltaFitOnDisk on its own and
\*   downloadDeltaStats (src/src/rootfstreemanager.cc), and the requests
\*   getAppManifest and downloadBlob of Docker::RegistryClient make
\*   (src/src/docker.cc).
\*
\* Strings whose characters the code inspects (URLs, version numbers) are
\* sequences of one-character strings; error descriptions, which the code only
\* searches for fixed fragments and concatenates, are sequences of fragments.

VARIABLES
    \* ---- RootfsTreeManager::Download ----
    ostree_server,   \* config.ostree_server (= gateway_url_)
    highWatermark,   \* cfg_.SysrootStorageWatermark
    gw,              \* what the gateway answered to POST /download-urls
    remotes,         \* std::vector<Remote> remotes
    idx,             \* position of the range-for over remotes (1-based)
    dpc,             \* position inside Download
    delta_stat,      \* DeltaStat delta_stat of the current iteration
    update_stat,     \* inputs and outcome of the last canDeltaFitOnDisk call
    error_desc,      \* std::string error_desc
    res,             \* DownloadResult res / the value returned
    dlog,            \* calls made to collaborators, in order
    \* ---- LiteInstall::Download and aklite::cli::Install ----
    cpc,             \* position inside cli::Install
    dr,              \* DownloadResult returned by installer->Download()
    cli_status,      \* StatusCode returned by cli::Install
    clog,            \* calls made by LiteInstall::Download, in order
    \* ---- RootfsTreeManager::install ----
    cfg_UpdateBlock, \* cfg_.UpdateBlock
    boot,            \* answers of boot_fw_update_status_
    current,         \* OstreeManager::getCurrent().sha256Hash()
    pending,         \* sysroot()->getDeploymentHash(kPending)
    target,          \* target.sha256Hash()
    ipc,             \* position inside install
    ires,            \* data::InstallationResult res / the value returned
    ilog,            \* calls made to collaborators, in order
    \* ---- Docker::RegistryClient::downloadBlob ----
    expected_size,   \* size_t expected_size
    digest_hash,     \* uri.digest.hash()
    output_file,     \* the file at filepath and the stream opened on it
    written_size,    \* DownloadCtx::written_size
    received_size,   \* DownloadCtx::received_size
    hasher,          \* bytes MultiPartSHA256Hasher was updated with
    bpc,             \* position inside downloadBlob
    bres,            \* how downloadBlob returned: "" or what it threw
    \* ---- Docker::Uri::parseUri ----
    uri,             \* const std::string& uri
    upc,             \* position inside parseUri
    parsed,          \* the Uri returned or the exception thrown
    \* ---- AkliteClient::CheckIn ----
    allTargets,      \* client_->allTargets()
    tags,            \* client_->tags
    primary_ecu_hardware_id,  \* client_->config.provision.primary_ecu_hardware_id
    secondary_hwids_,         \* AkliteClient::secondary_hwids_
    apc,             \* position inside CheckIn
    checkin,         \* the CheckInResult returned, or the exception thrown
    latest,          \* CheckInResult::GetLatest: its argument and what it returned or threw
    \* ---- aklite::cli::Install ----
    cli_args,        \* version, target_name, install_mode, force_downgrade, local_update_source
    client,          \* what AkliteClient answers: IsInstallationInProgress, GetCurrent, CheckIn
    mode,            \* InstallMode mode
    cli_target,      \* TufTarget target
    ir,              \* InstallResult ir
    kpc,             \* position inside cli::Install
    install_status,  \* StatusCode returned by cli::Install, or the exception thrown
    klog,            \* calls made on the client and the installers, in order
    install_results, \* what the installers' Install() returned, in order
    \* ---- aklite::cli::CompleteInstall ----
    complete_client, \* what AkliteClient answers: IsInstallationInProgress, GetPendingTarget,
                     \* GetCurrent, CompleteInstallation
    complete_pc,     \* position inside cli::CompleteInstall
    complete_status, \* StatusCode returned by cli::CompleteInstall
    complete_log,    \* calls made on the client and the installers, with their answers
    \* ---- RootfsTreeManager::Config::Config ----
    extra,           \* pconfig.extra
    Config,          \* the Config under construction: UpdateBlock, SysrootStorageWatermark
    wpc,             \* position inside the constructor
    \* ---- RootfsTreeManager::canDeltaFitOnDisk ----
    fit_in,          \* delta_stat, what getStorageStat and getStorageHighWatermark answer
    fit_out,         \* the blocks computed, update_stat and the value returned
    fpc,             \* position inside canDeltaFitOnDisk
    \* ---- RootfsTreeManager::downloadDeltaStats ----
    stats_ref,       \* const DeltaStatsRef& ref
    stats_resp,      \* what client.get answers
    stats_pc,        \* position inside downloadDeltaStats
    stats_json,      \* the Json::Value returned
    stats_log,       \* HTTP requests issued, in order
    \* ---- Docker::RegistryClient ----
    registry_call,   \* the member function running: getAppManifest or downloadBlob
    registry_calls,  \* calls made so far
    registry_pc,     \* position inside the call
    basic_auth,      \* what getBasicAuthHeader returned
    bearer_auth,     \* what getBearerAuthHeader returned
    registry_log,    \* HTTP requests issued, in order, with what was answered
    registry_res     \* how each call ended: "returned" or what it threw

dvars == <<ostree_server, highWatermark, gw, remotes, idx, dpc, delta_stat,
           update_stat, error_desc, res, dlog>>
cvars == <<cpc, dr, cli_status, clog>>
ivars == <<cfg_UpdateBlock, boot, current, pending, target, ipc, ires, ilog>>
bvars == <<expected_size, digest_hash, output_file, written_size, received_size,
           hasher, bpc, bres>>
uvars == <<uri, upc, parsed>>
avars == <<allTargets, tags, primary_ecu_hardware_id, secondary_hwids_, apc, checkin,
           latest>>
kvars == <<cli_args, client, mode, cli_target, ir, kpc, install_status, klog,
          install_results>>
mvars == <<complete_client, complete_pc, complete_status, complete_log>>
wvars == <<extra, Config, wpc>>
fvars == <<fit_in, fit_out, fpc>>
svars == <<stats_ref, stats_resp, stats_pc, stats_json, stats_log>>
gvars == <<registry_call, registry_calls, registry_pc, basic_auth, bearer_auth, registry_log,
          registry_res>>
xvars == <<svars, gvars>>
nvars == <<kvars, mvars, wvars, fvars, xvars>>
ovars == <<bvars, uvars, avars, nvars>>
vars == <<dvars, cvars, ivars, ovars>>

\* ------------------------------------------------------------------
\* Bounds of the model

\* longest JSON array the gateway returns
MaxGw == 2

\* how many times in a row install is invoked on the same target
MaxInstallCalls == 2

\* largest expected_size of a blob, in bytes
MaxExpected == 3

\* most bytes the HTTP client hands to DownloadHandler in one call
MaxChunk == 2

\* longest part of an App URI in front of its first '@' or its digest
MaxHead == 4

\* most targets in the TUF metadata
MaxTargets == 2

\* ------------------------------------------------------------------
\* Strings

StartsWith(s, prefix) ==
    /\ Len(s) >= Len(prefix)
    /\ SubSeq(s, 1, Len(prefix)) = prefix

\* std::string::find(fragment) != npos on a description
Find(description, fragment) ==
    \E i \in 1..Len(description) : description[i] = fragment

Http == <<"h", "t", "t", "p">>
UrlG == <<"h", "t", "t", "p", "s", ":", "/", "/", "g", "/">>
UrlA == <<"h", "t", "t", "p", "s", ":", "/", "/", "a", "/">>
UrlB == <<"h", "t", "t", "p", "s", ":", "/", "/", "b", "/">>
UrlFile == <<"f", "i", "l", "e", ":", "/", "/", "/", "r">>
UrlHtt == <<"h", "t", "t">>

OstreeServers == {<<>>, UrlHtt, UrlFile, UrlG}

TargetName == "target-2"
SysrootPath == "/sysroot"

\* ------------------------------------------------------------------
\* Remote Selector

\* OstreeManager::remote, the name of the configured remote
remote == "remote"

PrimaryRemote(server, target_name) ==
    [name |-> remote,
     baseUrl |-> server,
     headers |-> {<<"X-Correlation-ID", <<target_name>>>>},
     keys |-> "keys_",
     isRemoteSet |-> FALSE]

GcsRemote(entry, target_name) ==
    [name |-> "gcs",
     baseUrl |-> entry.download_url,
     headers |-> {<<"X-Correlation-ID", <<target_name>>>>,
                  <<"Authorization", <<"Bearer ", entry.access_token>>>>},
     keys |-> "none",
     isRemoteSet |-> FALSE]

GwEntries ==
    {[download_url |-> UrlA, access_token |-> "t1"],
     [download_url |-> UrlB, access_token |-> "t2"]}

GwArrays == UNION {[1..n -> GwEntries] : n \in 0..MaxGw}

GatewayResponses ==
    {[isOk |-> FALSE, json |-> <<>>]} \cup {[isOk |-> TRUE, json |-> a] : a \in GwArrays}

NotAsked == [asked |-> FALSE, isOk |-> FALSE, json |-> <<>>]

RECURSIVE EmplaceAll(_, _, _, _)
EmplaceAll(rs, json, i, target_name) ==
    IF i > Len(json)
    THEN rs
    ELSE EmplaceAll(<<GcsRemote(json[i], target_name)>> \o rs, json, i + 1, target_name)

RECURSIVE EmplaceBackAll(_, _, _, _)
EmplaceBackAll(rs, json, i, target_name) ==
    IF i > Len(json)
    THEN rs
    ELSE EmplaceBackAll(rs \o <<GcsRemote(json[i], target_name)>>, json, i + 1, target_name)

getAdditionalRemotesAppend(rs, target_name, resp) ==
    IF ~resp.isOk THEN rs ELSE EmplaceBackAll(rs, resp.json, 1, target_name)

getAdditionalRemotes(rs, target_name, resp) ==
    IF ~resp.isOk THEN rs ELSE EmplaceAll(rs, resp.json, 1, target_name)

\* ------------------------------------------------------------------
\* Admission control

StorageStats ==
    {[blockNumb |-> 10, freeBlockNumb |-> f, blockSize |-> b] :
        f \in {0, 2, 5, 10}, b \in {1, 4}}

USizes == {0, 1, 4, 5, 9}

Watermarks == {50, 90}

NoStat == [set |-> FALSE, storage |-> [blockNumb |-> 0, freeBlockNumb |-> 0, blockSize |-> 1],
           uncompressedSize |-> 0, highWatermark |-> 0]

NoDelta == [size |-> 0, uncompressedSize |-> 0]

\* ------------------------------------------------------------------
\* IEEE-754 double arithmetic of canDeltaFitOnDisk, on numbers written in
\* three limbs of 18 bits each so that every intermediate value stays a small
\* integer; exact for watermarks of 50 to 99 and fewer than 4096 blocks

Limb == 262144

\* the number of bits of n
BitLength(n) == CHOOSE k \in 0..30 : n < 2 ^ k /\ (k = 0 \/ 2 ^ (k - 1) <= n)

\* static_cast<double>(watermark) / 100, a value of [0.5, 1): the limbs
\* <<q1, q2, q3>> of the double q = (q1 * Limb^2 + q2 * Limb + q3) / 2^54.
\* d1, d2, d3 are the first 54 bits of the quotient; the 53 bits of the
\* significand are all but the last, which is rounded away to nearest, ties
\* to even
WatermarkFraction(watermark) ==
    LET d1 == (watermark * Limb) \div 100
        r1 == (watermark * Limb) % 100
        d2 == (r1 * Limb) \div 100
        r2 == (r1 * Limb) % 100
        d3 == (r2 * Limb) \div 100
        r3 == (r2 * Limb) % 100
        kept == d3 \div 2
        up == d3 % 2 = 1 /\ (r3 # 0 \/ kept % 2 = 1)
        t3 == 2 * (kept + (IF up THEN 1 ELSE 0))
        t2 == d2 + (t3 \div Limb)
        t1 == d1 + (t2 \div Limb)
    IN  <<t1, t2 % Limb, t3 % Limb>>

\* std::floor(blockNumb * (static_cast<double>(watermark) / 100)): the exact
\* product p1 * Limb^2 + p2 * Limb + p3 (over 2^54) is rounded to 53
\* significant bits, to nearest, ties to even, and its integer part taken
FloorOfProduct(blockNumb, watermark) ==
    LET q == WatermarkFraction(watermark)
        t3 == blockNumb * q[3]
        t2 == blockNumb * q[2] + (t3 \div Limb)
        p1 == blockNumb * q[1] + (t2 \div Limb)
        p2 == t2 % Limb
        p3 == t3 % Limb
        \* the bits of the product beyond the 53rd: they all lie in p3
        drop == BitLength(p1) + 36 - 53
        unit == 2 ^ drop
        kept == p3 \div unit
        lost == p3 % unit
        up == \/ 2 * lost > unit
              \/ 2 * lost = unit /\ kept % 2 = 1
        c3 == IF (kept + (IF up THEN 1 ELSE 0)) * unit >= Limb THEN 1 ELSE 0
        c2 == IF p2 + c3 >= Limb THEN 1 ELSE 0
    IN  IF drop <= 0 THEN p1 \div Limb
        ELSE (p1 + c2) \div Limb

canDeltaFitOnDiskNoRoundUp(delta, storage, watermark) ==
    LET max_blocks_available == (storage.blockNumb * watermark) \div 100
        blocks_in_use == storage.blockNumb - storage.freeBlockNumb
        max_blocks_available_for_update ==
            IF max_blocks_available > blocks_in_use
            THEN max_blocks_available - blocks_in_use
            ELSE 0
        blocks_required_by_delta == delta.uncompressedSize \div storage.blockSize
    IN  blocks_required_by_delta <= max_blocks_available_for_update

max_blocks_available(storage, watermark) == FloorOfProduct(storage.blockNumb, watermark)

max_blocks_available_for_update(storage, watermark) ==
    LET blocks_in_use == storage.blockNumb - storage.freeBlockNumb
    IN  IF max_blocks_available(storage, watermark) > blocks_in_use
        THEN max_blocks_available(storage, watermark) - blocks_in_use
        ELSE 0

blocks_required_by_delta(delta, storage) ==
    (delta.uncompressedSize \div storage.blockSize)
    + (IF delta.uncompressedSize % storage.blockSize # 0 THEN 1 ELSE 0)

canDeltaFitOnDisk(delta, storage, watermark) ==
    blocks_required_by_delta(delta, storage)
        <= max_blocks_available_for_update(storage, watermark)

\* ------------------------------------------------------------------
\* Results of the tree tool's pull

PullErrors ==
    {<<"Failed to connect">>,
     <<"would be exceeded, at least", " 13 bytes requested">>,
     <<"min-free-space-size", " 500MB ", "would be exceeded, at least">>,
     <<"min-free-space-percent", " 3% ", "would be exceeded, at least">>,
     <<"Delta requires", " 2.0 MB ", "free space, but only", " 1.0 MB available">>}

PullOutcomes ==
    {[ok |-> TRUE, description |-> <<>>]}
    \cup {[ok |-> FALSE, description |-> d] : d \in PullErrors}

isNoSpaceErrSizeOnly(description) ==
    \/ /\ Find(description, "would be exceeded, at least")
       /\ Find(description, "min-free-space-size")
    \/ /\ Find(description, "Delta requires")
       /\ Find(description, "free space, but only")

isNoSpaceErr(description) ==
    \/ /\ Find(description, "would be exceeded, at least")
       /\ \/ Find(description, "min-free-space-size")
          \/ Find(description, "min-free-space-percent")
    \/ /\ Find(description, "Delta requires")
       /\ Find(description, "free space, but only")

OkResult == [status |-> "Ok", description |-> <<>>]

NoSpaceAdmission ==
    [status |-> "DownloadFailed_NoSpace",
     description |-> <<"Insufficient storage available; err: ", "stat_msg">>]

NoSpacePull(description) ==
    [status |-> "DownloadFailed_NoSpace",
     description |-> <<"Insufficient storage available; path: ", SysrootPath, "; err: ">>
                     \o description]

\* What one iteration does with the pull's result: the new res, the new
\* error_desc, and whether the loop is left (break).
AfterPullNoBreak(pull_err, desc) ==
    IF pull_err.ok
    THEN [res |-> OkResult, error_desc |-> desc, stop |-> FALSE]
    ELSE IF isNoSpaceErr(pull_err.description)
    THEN [res |-> NoSpacePull(pull_err.description), error_desc |-> desc, stop |-> TRUE]
    ELSE [res |-> [status |-> "DownloadFailed",
                   description |-> desc \o pull_err.description \o <<"\n">>],
          error_desc |-> desc \o pull_err.description \o <<"\n">>,
          stop |-> FALSE]

AfterPullLastOnly(pull_err, desc) ==
    IF pull_err.ok
    THEN [res |-> OkResult, error_desc |-> desc, stop |-> TRUE]
    ELSE IF isNoSpaceErr(pull_err.description)
    THEN [res |-> NoSpacePull(pull_err.description), error_desc |-> desc, stop |-> TRUE]
    ELSE [res |-> [status |-> "DownloadFailed",
                   description |-> pull_err.description \o <<"\n">>],
          error_desc |-> pull_err.description \o <<"\n">>,
          stop |-> FALSE]

AfterPull(pull_err, desc) ==
    IF pull_err.ok
    THEN [res |-> OkResult, error_desc |-> desc, stop |-> TRUE]
    ELSE IF isNoSpaceErr(pull_err.description)
    THEN [res |-> NoSpacePull(pull_err.description), error_desc |-> desc, stop |-> TRUE]
    ELSE [res |-> [status |-> "DownloadFailed",
                   description |-> desc \o pull_err.description \o <<"\n">>],
          error_desc |-> desc \o pull_err.description \o <<"\n">>,
          stop |-> FALSE]

\* ------------------------------------------------------------------
\* RootfsTreeManager::Download

Ev(op, i, ok, description) ==
    [op |-> op,
     idx |-> i,
     url |-> IF i \in 1..Len(remotes) THEN remotes[i].baseUrl ELSE <<>>,
     ok |-> ok,
     description |-> description]

\* what getDeltaStatIfAvailable can come to: false for one of four reasons,
\* or true with the DeltaStat of the update
DeltaStatOutcomes ==
    {[found |-> FALSE, why |-> w, stat |-> NoDelta] :
        w \in {"no delta-stats ref", "download failed", "no stat for update", "exception"}}
    \cup {[found |-> TRUE, why |-> "", stat |-> [size |-> 1, uncompressedSize |-> u]] :
            u \in USizes}

\* getStorageStat either throws or yields the statvfs numbers
StorageOutcomes ==
    {[throws |-> TRUE, stat |-> NoStat.storage]}
    \cup {[throws |-> FALSE, stat |-> s] : s \in StorageStats}

Download_Begin ==
    /\ dpc = "idle"
    /\ IF ostree_server # <<>> /\ StartsWith(ostree_server, Http)
       THEN \E resp \in GatewayResponses :
               /\ gw' = [asked |-> TRUE, isOk |-> resp.isOk, json |-> resp.json]
               /\ remotes' = getAdditionalRemotes(
                                <<PrimaryRemote(ostree_server, TargetName)>>, TargetName, resp)
               /\ dlog' = Append(dlog, [op |-> "post /download-urls", idx |-> 0,
                                        url |-> ostree_server, ok |-> resp.isOk,
                                        description |-> <<>>])
       ELSE /\ gw' = NotAsked
            /\ remotes' = <<PrimaryRemote(ostree_server, TargetName)>>
            /\ dlog' = dlog
    /\ res' = OkResult
    /\ error_desc' = <<>>
    /\ idx' = 1
    /\ dpc' = "setRemote"
    /\ UNCHANGED <<ostree_server, highWatermark, delta_stat, update_stat>>
    /\ UNCHANGED <<cvars, ivars, ovars>>

Download_setRemote ==
    /\ dpc = "setRemote"
    /\ dlog' = IF ~remotes[idx].isRemoteSet
               THEN Append(dlog, Ev("setRemote", idx, TRUE, <<>>))
               ELSE dlog
    /\ delta_stat' = NoDelta
    /\ update_stat' = NoStat
    /\ dpc' = "getDeltaStat"
    /\ UNCHANGED <<ostree_server, highWatermark, gw, remotes, idx, error_desc, res>>
    /\ UNCHANGED <<cvars, ivars, ovars>>

Download_getDeltaStatOrFail ==
    /\ dpc = "getDeltaStat"
    /\ \E out \in DeltaStatOutcomes :
          /\ dlog' = Append(dlog, Ev("getDeltaStatIfAvailable", idx, out.found, <<>>))
          /\ delta_stat' = out.stat
          /\ IF out.found
             THEN dpc' = "canDeltaFit" /\ res' = res
             ELSE dpc' = "done" /\ res' = [status |-> "DownloadFailed", description |-> <<>>]
    /\ UNCHANGED <<ostree_server, highWatermark, gw, remotes, idx, update_stat, error_desc>>
    /\ UNCHANGED <<cvars, ivars, ovars>>

Download_getDeltaStat ==
    /\ dpc = "getDeltaStat"
    /\ \E out \in DeltaStatOutcomes :
          /\ dlog' = Append(dlog, Ev("getDeltaStatIfAvailable", idx, out.found, <<>>))
          /\ delta_stat' = out.stat
          /\ dpc' = IF out.found THEN "canDeltaFit" ELSE "pull"
    /\ UNCHANGED <<ostree_server, highWatermark, gw, remotes, idx, update_stat,
                   error_desc, res>>
    /\ UNCHANGED <<cvars, ivars, ovars>>

Download_canDeltaFit ==
    /\ dpc = "canDeltaFit"
    /\ \E st \in StorageOutcomes :
          IF st.throws
          THEN /\ dlog' = Append(dlog, Ev("canDeltaFitOnDisk throws", idx, TRUE, <<>>))
               /\ dpc' = "pull"
               /\ UNCHANGED <<update_stat, res>>
          ELSE LET ok == canDeltaFitOnDisk(delta_stat, st.stat, highWatermark)
               IN  /\ dlog' = Append(dlog, Ev("canDeltaFitOnDisk", idx, ok, <<>>))
                   /\ update_stat' = [set |-> TRUE, storage |-> st.stat,
                                      uncompressedSize |-> delta_stat.uncompressedSize,
                                      highWatermark |-> highWatermark]
                   /\ IF ~ok
                      THEN res' = NoSpaceAdmission /\ dpc' = "done"
                      ELSE res' = res /\ dpc' = "pull"
    /\ UNCHANGED <<ostree_server, highWatermark, gw, remotes, idx, delta_stat, error_desc>>
    /\ UNCHANGED <<cvars, ivars, ovars>>

Download_pull ==
    /\ dpc = "pull"
    /\ \E pull_err \in PullOutcomes :
          LET r == AfterPull(pull_err, error_desc)
          IN  /\ dlog' = Append(dlog, Ev("pull", idx, pull_err.ok, pull_err.description))
              /\ res' = r.res
              /\ error_desc' = r.error_desc
              /\ IF r.stop \/ idx = Len(remotes)
                 THEN dpc' = "done" /\ idx' = idx
                 ELSE dpc' = "setRemote" /\ idx' = idx + 1
    /\ delta_stat' = NoDelta
    /\ update_stat' = NoStat
    /\ UNCHANGED <<ostree_server, highWatermark, gw, remotes>>
    /\ UNCHANGED <<cvars, ivars, ovars>>

DownloadNext ==
    \/ Download_Begin
    \/ Download_setRemote
    \/ Download_getDeltaStat
    \/ Download_canDeltaFit
    \/ Download_pull

DownloadInit ==
    /\ ostree_server \in OstreeServers
    /\ highWatermark \in Watermarks
    /\ gw = NotAsked
    /\ remotes = <<>>
    /\ idx = 0
    /\ dpc = "idle"
    /\ delta_stat = NoDelta
    /\ update_stat = NoStat
    /\ error_desc = <<>>
    /\ res = OkResult
    /\ dlog = <<>>

\* ------------------------------------------------------------------
\* LiteInstall::Download and the download stage of aklite::cli::Install

\* LiteClient::download: the result code of the rootfs download
LiteClient_download(download_res) ==
    IF download_res.status = "Ok" THEN "kOk" ELSE "kDownloadFailed"

d2s ==
    [s \in {"Ok", "DownloadFailed", "VerificationFailed", "DownloadFailed_NoSpace"} |->
        CASE s = "Ok" -> "Ok"
          [] s = "DownloadFailed" -> "DownloadFailure"
          [] s = "VerificationFailed" -> "DownloadFailureVerificationFailed"
          [] s = "DownloadFailed_NoSpace" -> "DownloadFailureNoSpace"]

res2StatusCode(code_map, rc) ==
    IF rc \in DOMAIN code_map THEN code_map[rc] ELSE "UnknownError"

\* a call LiteInstall::Download makes on the client, with its answer or argument
CEv(op, rc) == [op |-> op, rc |-> rc]

\* what LiteClient::VerifyTarget answers
TargetStatuses == {"kGood", "kInvalid"}

LiteInstall_DownloadNoVerify ==
    /\ cpc = "idle"
    /\ dpc = "done"
    /\ LET rc == LiteClient_download(res)
       IN  IF rc # "kOk"
           THEN /\ dr' = [status |-> "DownloadFailed",
                          description |-> <<"Unable to download target">>]
                /\ clog' = clog \o <<CEv("download", rc)>>
           ELSE /\ dr' = OkResult
                /\ clog' = clog \o <<CEv("download", rc)>>
    /\ cpc' = "downloaded"
    /\ UNCHANGED <<cli_status, dvars, ivars, ovars>>

LiteInstall_Download ==
    /\ cpc = "idle"
    /\ dpc = "done"
    /\ LET rc == LiteClient_download(res)
       IN  IF rc # "kOk"
           THEN /\ dr' = [status |-> "DownloadFailed",
                          description |-> <<"Unable to download target">>]
                /\ clog' = clog \o <<CEv("download", rc)>>
           ELSE \E verified \in TargetStatuses :
                   IF verified # "kGood"
                   THEN /\ dr' = [status |-> "VerificationFailed",
                                  description |-> <<"Downloaded target is invalid">>]
                        /\ clog' = clog \o <<CEv("download", rc),
                                             CEv("VerifyTarget", verified),
                                             CEv("notifyInstallFinished",
                                                 "kVerificationFailed")>>
                   ELSE /\ dr' = OkResult
                        /\ clog' = clog \o <<CEv("download", rc),
                                             CEv("VerifyTarget", verified)>>
    /\ cpc' = "downloaded"
    /\ UNCHANGED <<cli_status, dvars, ivars, ovars>>

Cli_Install_Download ==
    /\ cpc = "downloaded"
    /\ IF dr.status # "Ok"
       THEN /\ cli_status' = res2StatusCode(d2s, dr.status)
            /\ cpc' = "done"
       ELSE /\ cli_status' = cli_status
            /\ cpc' = "install"
    /\ UNCHANGED <<dr, clog, dvars, ivars, ovars>>

CliNext ==
    \/ Download_Begin
    \/ Download_setRemote
    \/ Download_getDeltaStat
    \/ Download_canDeltaFit
    \/ Download_pull
    \/ LiteInstall_Download
    \/ Cli_Install_Download

\* ------------------------------------------------------------------
\* Bootloader Interlock

Digits == {"0", "1", "2", "3", "4", "5", "6", "7", "8", "9"}

DigitVal(c) ==
    CASE c = "0" -> 0 [] c = "1" -> 1 [] c = "2" -> 2 [] c = "3" -> 3 [] c = "4" -> 4
      [] c = "5" -> 5 [] c = "6" -> 6 [] c = "7" -> 7 [] c = "8" -> 8 [] c = "9" -> 9

RECURSIVE DecimalValue(_)
DecimalValue(s) ==
    IF s = <<>> THEN 0
    ELSE 10 * DecimalValue(SubSeq(s, 1, Len(s) - 1)) + DigitVal(s[Len(s)])

\* uint64_t arithmetic is carried out modulo 2^20 in place of 2^64: the
\* version strings have few digits, so that no value reaches the modulus
\* other than by negation, and the order of the values is that of uint64_t
Uint64Modulus == 1048576

\* boost::lexical_cast<uint64_t> of a string short enough not to overflow:
\* an optional sign, then digits only, or bad_lexical_cast; a minus sign
\* negates the unsigned value
lexical_cast(s) ==
    LET has_minus == s # <<>> /\ s[1] = "-"
        has_sign == has_minus \/ (s # <<>> /\ s[1] = "+")
        digits == IF has_sign THEN Tail(s) ELSE s
    IN  IF digits # <<>> /\ \A k \in 1..Len(digits) : digits[k] \in Digits
        THEN [ok |-> TRUE,
              val |-> IF has_minus
                      THEN (Uint64Modulus - DecimalValue(digits)) % Uint64Modulus
                      ELSE DecimalValue(digits)]
        ELSE [ok |-> FALSE, val |-> 0]

VersionStrings ==
    {<<>>, <<"0">>, <<"4">>, <<"5">>, <<"0", "5">>, <<"1", "0">>, <<"x">>, <<"4", "x">>,
     <<"-", "1">>, <<"+", "4">>}

\* getTargetVersion: the version string, std::invalid_argument for a
\* malformed version file, or another exception
TargetVersionOutcomes ==
    {[kind |-> "ok", str |-> v] : v \in VersionStrings}
    \cup {[kind |-> "invalid_argument", str |-> <<>>],
          [kind |-> "exception", str |-> <<>>]}

\* getCurrentVersion: (cur_ver_str, is_current_ver_valid)
CurrentVersionOutcomes == {[str |-> v, valid |-> b] : v \in VersionStrings, b \in BOOLEAN}

BootStates ==
    [isUpdateSupported : BOOLEAN,
     isUpdateInProgress : BOOLEAN,
     isRollbackProtectionEnabled : BOOLEAN,
     targetVersion : TargetVersionOutcomes,
     currentVersion : CurrentVersionOutcomes]

InstallationResult(code, description) == [result_code |-> code, description |-> description]

RollbackMsgSwapped(cur_ver_str, target_ver_str) ==
    <<"bootloader rollback from version ">> \o target_ver_str \o <<" to ">>
    \o cur_ver_str \o <<" has been detected">>

RollbackMsg(cur_ver_str, target_ver_str) ==
    <<"bootloader rollback from version ">> \o cur_ver_str \o <<" to ">>
    \o target_ver_str \o <<" has been detected">>

verifyBootloaderUpdateNoCompare(UpdateBlock, b) ==
    IF UpdateBlock /\ b.isUpdateInProgress
    THEN InstallationResult("kNeedCompletion", <<"bootlader update is in progress">>)
    ELSE IF ~b.isRollbackProtectionEnabled
    THEN InstallationResult("kOk", <<>>)
    ELSE IF b.targetVersion.kind = "invalid_argument"
    THEN InstallationResult("kInstallFailed", <<"exc.what()">>)
    ELSE IF b.targetVersion.kind = "exception"
    THEN InstallationResult("kOk", <<>>)
    ELSE IF ~lexical_cast(b.targetVersion.str).ok
    THEN InstallationResult("kInstallFailed", <<"bad lexical cast">>)
    ELSE InstallationResult("kOk", <<>>)

verifyBootloaderUpdateNoBlock(UpdateBlock, b) ==
    IF ~b.isRollbackProtectionEnabled
    THEN InstallationResult("kOk", <<>>)
    ELSE IF b.targetVersion.kind = "invalid_argument"
    THEN InstallationResult("kInstallFailed", <<"exc.what()">>)
    ELSE IF b.targetVersion.kind = "exception"
    THEN InstallationResult("kOk", <<>>)
    ELSE LET target_ver_str == b.targetVersion.str
             target_ver == lexical_cast(target_ver_str)
             cur_ver_str == IF b.currentVersion.valid THEN b.currentVersion.str ELSE <<"0">>
             cur == lexical_cast(cur_ver_str)
             cur_ver == IF cur.ok THEN cur.val ELSE 0
         IN  IF ~target_ver.ok
             THEN InstallationResult("kInstallFailed", <<"bad lexical cast">>)
             ELSE IF target_ver.val < cur_ver
             THEN InstallationResult("kInstallFailed", RollbackMsg(cur_ver_str, target_ver_str))
             ELSE InstallationResult("kOk", <<>>)

verifyBootloaderUpdate(UpdateBlock, b) ==
    IF UpdateBlock /\ b.isUpdateInProgress
    THEN InstallationResult("kNeedCompletion", <<"bootlader update is in progress">>)
    ELSE IF ~b.isRollbackProtectionEnabled
    THEN InstallationResult("kOk", <<>>)
    ELSE IF b.targetVersion.kind = "invalid_argument"
    THEN InstallationResult("kInstallFailed", <<"exc.what()">>)
    ELSE IF b.targetVersion.kind = "exception"
    THEN InstallationResult("kOk", <<>>)
    ELSE LET target_ver_str == b.targetVersion.str
             target_ver == lexical_cast(target_ver_str)
             cur_ver_str == IF b.currentVersion.valid THEN b.currentVersion.str ELSE <<"0">>
             cur == lexical_cast(cur_ver_str)
             cur_ver == IF cur.ok THEN cur.val ELSE 0
         IN  IF ~target_ver.ok
             THEN InstallationResult("kInstallFailed", <<"bad lexical cast">>)
             ELSE IF target_ver.val < cur_ver
             THEN InstallationResult("kInstallFailed", RollbackMsg(cur_ver_str, target_ver_str))
             ELSE InstallationResult("kOk", <<>>)

\* ------------------------------------------------------------------
\* RootfsTreeManager::install

Hashes == {"H1", "H2", "H3"}

AlreadyInstalled ==
    InstallationResult("kOk", <<"OSTree hash already installed, same as current">>)

\* the result codes OstreeManager::install returns
OstreeInstallCodes == {"kOk", "kNeedCompletion", "kInstallFailed"}

IEv(op, code) ==
    [op |-> op, result_code |-> code, current |-> current, pending |-> pending]

interlockShortCircuitsOnFailureOnly(vres) == vres.result_code = "kInstallFailed"

\* the interlock's result makes install return at once
interlockShortCircuits(vres) == vres.result_code # "kOk"

installNeededCurrentOnly(cur, pend, tgt) == cur # tgt

installNeededAlways(cur, pend, tgt) == TRUE

\* the condition under which install runs the tree tool's install
installNeeded(cur, pend, tgt) ==
    \/ cur # tgt
    \/ pend # "" /\ pend # tgt

Install_Begin ==
    /\ ipc = "start"
    /\ LET verify == current # target /\ boot.isUpdateSupported
           vres == verifyBootloaderUpdate(cfg_UpdateBlock, boot)
           verified == IF verify
                       THEN <<IEv("verifyBootloaderUpdate", vres.result_code)>>
                       ELSE <<>>
       IN  IF verify /\ interlockShortCircuits(vres)
           THEN /\ ires' = vres
                /\ ilog' = ilog \o verified
                /\ ipc' = "done"
           ELSE IF installNeeded(current, pending, target)
           THEN /\ ires' = IF verify THEN vres ELSE ires
                /\ ilog' = ilog \o verified \o <<IEv("updateNotify", "")>>
                /\ ipc' = "install"
           ELSE /\ ires' = AlreadyInstalled
                /\ ilog' = ilog \o verified
                /\ ipc' = "done"
    /\ UNCHANGED <<cfg_UpdateBlock, boot, current, pending, target>>
    /\ UNCHANGED <<dvars, cvars, ovars>>

\* OstreeManager::install stages the target as the pending deployment unless
\* it fails
Install_OstreeInstall ==
    /\ ipc = "install"
    /\ \E code \in OstreeInstallCodes :
          /\ ires' = InstallationResult(code, <<"ostree: ", code>>)
          /\ ilog' = Append(ilog, IEv("install", code))
          /\ IF code = "kInstallFailed"
             THEN pending' = pending /\ ipc' = "done"
             ELSE pending' = target /\ ipc' = "installNotify"
    /\ UNCHANGED <<cfg_UpdateBlock, boot, current, target>>
    /\ UNCHANGED <<dvars, cvars, ovars>>

Install_FinishNoNotify ==
    /\ ipc = "installNotify"
    /\ ilog' = ilog
    /\ ires' = ires
    /\ ipc' = "done"
    /\ UNCHANGED <<cfg_UpdateBlock, boot, current, pending, target>>
    /\ UNCHANGED <<dvars, cvars, ovars>>

Install_FinishNoRewrite ==
    /\ ipc = "installNotify"
    /\ ilog' = ilog \o <<IEv("installNotify", "")>>
    /\ ires' = ires
    /\ ipc' = "done"
    /\ UNCHANGED <<cfg_UpdateBlock, boot, current, pending, target>>
    /\ UNCHANGED <<dvars, cvars, ovars>>

Install_Finish ==
    /\ ipc = "installNotify"
    /\ IF current = target /\ ires.result_code = "kNeedCompletion"
       THEN /\ ilog' = ilog \o <<IEv("installNotify", ""), IEv("updateNotify", "")>>
            /\ ires' = AlreadyInstalled
       ELSE /\ ilog' = ilog \o <<IEv("installNotify", "")>>
            /\ ires' = ires
    /\ ipc' = "done"
    /\ UNCHANGED <<cfg_UpdateBlock, boot, current, pending, target>>
    /\ UNCHANGED <<dvars, cvars, ovars>>

\* the invocations of install that have returned
Returns == {j \in 1..Len(ilog) : ilog[j].op = "return"}

\* install has returned and the caller invokes it again with the same target:
\* the booted deployment is as it was, the pending deployment is what the
\* previous invocation left
Install_Again ==
    /\ ipc = "done"
    /\ Cardinality(Returns) < MaxInstallCalls - 1
    /\ ilog' = Append(ilog, IEv("return", ires.result_code))
    /\ ipc' = "start"
    /\ UNCHANGED <<cfg_UpdateBlock, boot, current, pending, target, ires>>
    /\ UNCHANGED <<dvars, cvars, ovars>>

InstallTwiceNext ==
    \/ Install_Begin
    \/ Install_OstreeInstall
    \/ Install_Finish
    \/ Install_Again

InstallNext ==
    \/ Install_Begin
    \/ Install_OstreeInstall
    \/ Install_Finish

InstallInit ==
    /\ cfg_UpdateBlock \in BOOLEAN
    /\ boot \in BootStates
    /\ current = "H1"
    /\ pending \in {""} \cup Hashes
    /\ target \in {"H1", "H2"}
    /\ ipc = "start"
    /\ ires = InstallationResult("kUnknown", <<>>)
    /\ ilog = <<>>

\* ------------------------------------------------------------------
\* Docker::RegistryClient::downloadBlob

Bytes == {"a", "b"}

\* the buffers the HTTP client hands to DownloadHandler
Chunks == UNION {[1..n -> Bytes] : n \in 1..MaxChunk}

UpperHex == <<"0", "1", "2", "3", "4", "5", "6", "7", "8", "9", "A", "B", "C", "D", "E", "F">>

LowerCase ==
    "A" :> "a" @@ "B" :> "b" @@ "C" :> "c" @@ "D" :> "d" @@ "E" :> "e" @@ "F" :> "f"
    @@ "G" :> "g" @@ "H" :> "h" @@ "S" :> "s"

\* boost::algorithm::to_lower_copy
to_lower_copy(str) ==
    [i \in 1..Len(str) |-> IF str[i] \in DOMAIN LowerCase THEN LowerCase[str[i]] ELSE str[i]]

\* width of the stand-in digest, in values
DigestValues == 16

ByteValue(b) == IF b = "a" THEN 7 ELSE 11

\* the state of the hasher after update() with the bytes of m: a 4-bit
\* stand-in for SHA-256 that depends on every byte and on their order
RECURSIVE HasherState(_)
HasherState(m) ==
    IF m = <<>>
    THEN 5
    ELSE (HasherState(SubSeq(m, 1, Len(m) - 1)) * 3 + ByteValue(m[Len(m)])) % DigestValues

\* MultiPartHasher::getHexDigest: upper-case hex
getHexDigest(m) == <<UpperHex[HasherState(m) + 1]>>

\* uri.digest.hash(): lower-case hex
DigestHashes == {to_lower_copy(<<UpperHex[v]>>) : v \in 1..DigestValues}

Absent == [exists |-> FALSE, bytes |-> <<>>, is_open |-> FALSE, good |-> FALSE]

\* a file left at filepath by an earlier run
Stale == [exists |-> TRUE, bytes |-> <<"b">>, is_open |-> FALSE, good |-> FALSE]

\* how getBearerAuthHeader(uri) ends: "" is a header returned, the rest is
\* the std::runtime_error it or getBasicAuthHeader throws
AuthOutcomes ==
    {"",
     "Failed to get Docker Registry credentials",
     "Got invalid Docker Registry credentials",
     "Failed to get Auth Token at Docker Registry",
     "Got invalid token from Docker Registry"}

\* std::size_t arithmetic
SizeMod == 65536

downloadBlob_getBearerAuthHeader ==
    /\ bpc = "start"
    /\ \E outcome \in AuthOutcomes :
          IF outcome = ""
          THEN bpc' = "open" /\ bres' = bres
          ELSE bpc' = "done" /\ bres' = outcome
    /\ UNCHANGED <<expected_size, digest_hash, output_file, written_size, received_size, hasher>>
    /\ UNCHANGED <<nvars, dvars, cvars, ivars, uvars, avars>>

\* std::ofstream output_file{filepath, out | binary}: creates or truncates
downloadBlob_open ==
    /\ bpc = "open"
    /\ \E is_open \in BOOLEAN :
          IF is_open
          THEN /\ output_file' = [exists |-> TRUE, bytes |-> <<>>, is_open |-> TRUE, good |-> TRUE]
               /\ bpc' = "download"
               /\ bres' = bres
          ELSE /\ output_file' = output_file
               /\ bpc' = "done"
               /\ bres' = "Failed to open a file"
    /\ written_size' = 0
    /\ received_size' = 0
    /\ hasher' = <<>>
    /\ UNCHANGED <<expected_size, digest_hash>>
    /\ UNCHANGED <<nvars, dvars, cvars, ivars, uvars, avars>>

\* DownloadHandler -> DownloadCtx::write(data, size); a return value other than
\* size makes the HTTP client abort the transfer
DownloadHandler ==
    /\ bpc = "download"
    /\ \E data \in Chunks :
          LET size == Len(data)
              start_pos == Len(output_file.bytes)
          IN  /\ received_size' = written_size + size
              /\ IF written_size + size > expected_size \/ ~output_file.good
                 THEN /\ bpc' = "write_error"
                      /\ UNCHANGED <<output_file, written_size, hasher>>
                 ELSE \E n \in 0..size :
                         \* n bytes reach the file; fewer than size: the
                         \* stream fails and tellp() is -1
                         LET end_pos == IF n = size THEN start_pos + n ELSE -1
                         IN  /\ output_file' =
                                    [output_file EXCEPT !.bytes = @ \o SubSeq(data, 1, n),
                                                        !.good = (n = size)]
                             /\ written_size' = (written_size + (end_pos - start_pos)) % SizeMod
                             /\ hasher' = hasher \o data
                             /\ bpc' = IF (end_pos - start_pos) % SizeMod = size
                                       THEN "download"
                                       ELSE "write_error"
    /\ UNCHANGED <<expected_size, digest_hash, bres>>
    /\ UNCHANGED <<nvars, dvars, cvars, ivars, uvars, avars>>

downloadBlob_finishNoSizeCheck ==
    /\ bpc \in {"download", "write_error"}
    /\ \E isOk \in IF bpc = "write_error" THEN {FALSE} ELSE BOOLEAN :
          LET closed == [output_file EXCEPT !.is_open = FALSE]
              recv_blob_hash == to_lower_copy(getHexDigest(hasher))
          IN  IF ~isOk
              THEN /\ bres' = "Failed to download App blob"
                   /\ output_file' = closed
              ELSE IF recv_blob_hash # digest_hash
              THEN /\ bres' = "Hash of downloaded App blob does not equal to the expected one"
                   /\ output_file' = Absent
              ELSE /\ bres' = "returned"
                   /\ output_file' = closed
    /\ bpc' = "done"
    /\ UNCHANGED <<expected_size, digest_hash, written_size, received_size, hasher>>
    /\ UNCHANGED <<nvars, dvars, cvars, ivars, uvars, avars>>

\* the transfer is over: download() returns, and downloadBlob checks the
\* response, the size and the hash
downloadBlob_finish ==
    /\ bpc \in {"download", "write_error"}
    /\ \E isOk \in IF bpc = "write_error" THEN {FALSE} ELSE BOOLEAN :
          LET closed == [output_file EXCEPT !.is_open = FALSE]
              recv_blob_hash == to_lower_copy(getHexDigest(hasher))
          IN  IF ~isOk
              THEN /\ bres' = "Failed to download App blob"
                   /\ output_file' = closed
              ELSE IF written_size # expected_size
              THEN /\ bres' = "Size of downloaded App blob does not equal to the expected one"
                   /\ output_file' = Absent
              ELSE IF recv_blob_hash # digest_hash
              THEN /\ bres' = "Hash of downloaded App blob does not equal to the expected one"
                   /\ output_file' = Absent
              ELSE /\ bres' = "returned"
                   /\ output_file' = closed
    /\ bpc' = "done"
    /\ UNCHANGED <<expected_size, digest_hash, written_size, received_size, hasher>>
    /\ UNCHANGED <<nvars, dvars, cvars, ivars, uvars, avars>>

BlobNext ==
    \/ downloadBlob_getBearerAuthHeader
    \/ downloadBlob_open
    \/ DownloadHandler
    \/ downloadBlob_finish

BlobInit ==
    /\ expected_size \in 0..MaxExpected
    /\ digest_hash \in DigestHashes
    /\ output_file \in {Absent, Stale}
    /\ written_size = 0
    /\ received_size = 0
    /\ hasher = <<>>
    /\ bpc = "start"
    /\ bres = ""

BlobIdle ==
    /\ expected_size = 0
    /\ digest_hash = <<>>
    /\ output_file = Absent
    /\ written_size = 0
    /\ received_size = 0
    /\ hasher = <<>>
    /\ bpc = "idle"
    /\ bres = ""

UriIdle ==
    /\ uri = <<>>
    /\ upc = "idle"
    /\ parsed = [ok |-> FALSE, what |-> <<>>]

\* ------------------------------------------------------------------
\* Docker::Uri::parseUri and Docker::HashedDigest

\* std::string::npos, the largest std::size_t
npos == SizeMod - 1

\* std::string::find(ch): 0-based position of the first ch
find(str, ch) ==
    IF \E i \in 1..Len(str) : str[i] = ch
    THEN (CHOOSE i \in 1..Len(str) : str[i] = ch /\ \A j \in 1..(i - 1) : str[j] # ch) - 1
    ELSE npos

\* std::string::rfind(ch, pos): 0-based position of the last ch at or before pos
rfind(str, ch, pos) ==
    LET last == IF pos < Len(str) THEN pos + 1 ELSE Len(str)
    IN  IF \E i \in 1..last : str[i] = ch
        THEN (CHOOSE i \in 1..last : str[i] = ch /\ \A j \in (i + 1)..last : str[j] # ch) - 1
        ELSE npos

\* std::string::substr(pos, count) for pos <= size()
substr(str, pos, count) ==
    LET rest == Len(str) - pos
        n == IF count < rest THEN count ELSE rest
    IN  SubSeq(str, pos + 1, pos + n)

\* HashedDigest::Type
Type == <<"s", "h", "a", "2", "5", "6", ":">>

\* the size a hash must have
HashSize == 64

invalid_argument(what) == [ok |-> FALSE, what |-> <<"std::invalid_argument", what>>]

\* HashedDigest::HashedDigest(hash_digest)
HashedDigest(hash_digest) ==
    LET digest_ == to_lower_copy(hash_digest)
        hash_ == substr(digest_, Len(Type), npos)
    IN  IF Type # substr(digest_, 0, Len(Type))
        THEN invalid_argument("Unsupported hash type")
        ELSE IF HashSize # Len(hash_)
        THEN invalid_argument("Invalid hash size")
        ELSE [ok |-> TRUE, digest_ |-> digest_, hash_ |-> hash_,
              short_hash_ |-> substr(hash_, 0, 7)]

\* Uri::parseUri(uri): the Uri returned, or the exception thrown
parseUri(str) ==
    LET split_pos == find(str, "@")
        app_name_pos == rfind(str, "/", split_pos)
        app == substr(str, app_name_pos + 1, (split_pos - app_name_pos - 1) % SizeMod)
        digest == substr(str, split_pos + 1, npos)
        factory_name_pos == rfind(str, "/", (app_name_pos - 1) % SizeMod)
        factory == substr(str, factory_name_pos + 1,
                          (app_name_pos - factory_name_pos - 1) % SizeMod)
        repo == substr(str, factory_name_pos + 1,
                       (split_pos - factory_name_pos - 1) % SizeMod)
        registry_hostname == substr(str, 0, factory_name_pos)
        hashed == HashedDigest(digest)
    IN  IF split_pos = npos
        THEN invalid_argument("Invalid App URI: '@' not found in ")
        ELSE IF app_name_pos = npos
        THEN invalid_argument("Invalid App URI: the app name not found in ")
        ELSE IF factory_name_pos = npos
        THEN invalid_argument("Invalid App URI; the app factory name not found in ")
        ELSE IF ~hashed.ok
        THEN hashed
        ELSE [ok |-> TRUE, digest |-> hashed, app |-> app, factory |-> factory,
              repo |-> repo, registryHostname |-> registry_hostname]

Rep(ch, n) == [i \in 1..n |-> ch]

\* what comes before the digest separator: host, factory and app, or less
Heads == UNION {[1..n -> {"h", "/"}] : n \in 0..MaxHead}

\* what comes after the digest separator
Digests ==
    {Type \o Rep("a", HashSize),
     Type \o Rep("a", HashSize - 1),
     Type \o Rep("a", HashSize + 1),
     <<"S", "H", "A", "2", "5", "6", ":">> \o Rep("A", HashSize),
     Type \o Rep("g", HashSize),
     Type \o Rep("a", HashSize - 1) \o <<"/">>,
     Type \o Rep("a", HashSize - 2) \o <<"@", "a">>,
     <<"x", "y", "z", ":", "a", "b", "c">>,
     <<>>}

UriStrings == {h \o sep \o d : h \in Heads, sep \in {<<>>, <<"@">>}, d \in Digests}

Uri_parseUri ==
    /\ upc = "start"
    /\ parsed' = parseUri(uri)
    /\ upc' = "done"
    /\ UNCHANGED uri
    /\ UNCHANGED <<nvars, dvars, cvars, ivars, bvars, avars>>

UriNext ==
    \/ Uri_parseUri

UriInit ==
    /\ uri \in UriStrings
    /\ upc = "start"
    /\ parsed = [ok |-> FALSE, what |-> <<>>]

\* ------------------------------------------------------------------
\* AkliteClient::CheckIn

INT_MAX == 2147483647

INT_MIN == -INT_MAX - 1

HexDigitValue ==
    [c \in Digits |-> DigitVal(c)]
    @@ "a" :> 10 @@ "b" :> 11 @@ "c" :> 12 @@ "d" :> 13 @@ "e" :> 14 @@ "f" :> 15
    @@ "A" :> 10 @@ "B" :> 11 @@ "C" :> 12 @@ "D" :> 13 @@ "E" :> 14 @@ "F" :> 15

IsDigit(c, base) == c \in DOMAIN HexDigitValue /\ HexDigitValue[c] < base

\* acc * base - d is not below INT_MIN
Fits(acc, d, base) ==
    /\ acc # INT_MIN
    /\ \/ -acc < INT_MAX \div base
       \/ -acc = INT_MAX \div base /\ d <= (INT_MAX % base) + 1

\* the digits of str from position i on, in the given base: the value with a
\* minus sign, how many digits there were, and whether the value left the
\* range of int
RECURSIVE strtolDigits(_, _, _, _, _, _)
strtolDigits(str, i, base, acc, seen, overflow) ==
    IF i > Len(str) \/ ~IsDigit(str[i], base)
    THEN [acc |-> acc, seen |-> seen, overflow |-> overflow]
    ELSE LET d == HexDigitValue[str[i]]
         IN  IF overflow \/ ~Fits(acc, d, base)
             THEN strtolDigits(str, i + 1, base, acc, seen + 1, TRUE)
             ELSE strtolDigits(str, i + 1, base, acc * base - d, seen + 1, FALSE)

RECURSIVE SkipSpace(_, _)
SkipSpace(str, i) == IF i <= Len(str) /\ str[i] = " " THEN SkipSpace(str, i + 1) ELSE i

\* std::stoi(str, nullptr, 0): leading blanks, a sign, the base from the
\* prefix (0x: 16, 0: 8, else 10), then as many digits as there are; what
\* follows the digits is ignored
stoi(str) ==
    LET i0 == SkipSpace(str, 1)
        signed == i0 <= Len(str) /\ str[i0] \in {"+", "-"}
        neg == signed /\ str[i0] = "-"
        i1 == IF signed THEN i0 + 1 ELSE i0
        hex == /\ i1 + 2 <= Len(str)
               /\ str[i1] = "0"
               /\ str[i1 + 1] \in {"x", "X"}
               /\ IsDigit(str[i1 + 2], 16)
        base == IF hex THEN 16 ELSE IF i1 <= Len(str) /\ str[i1] = "0" THEN 8 ELSE 10
        r == strtolDigits(str, IF hex THEN i1 + 2 ELSE i1, base, 0, 0, FALSE)
    IN  IF r.seen = 0
        THEN [kind |-> "invalid_argument", val |-> 0]
        ELSE IF r.overflow \/ (~neg /\ r.acc = INT_MIN)
        THEN [kind |-> "out_of_range", val |-> 0]
        ELSE [kind |-> "ok", val |-> IF neg THEN r.acc ELSE -r.acc]

\* target_has_tags(t, config_tags): the target carries one of the configured tags
target_has_tags(t, config_tags) == t.tags \cap config_tags # {}

TufTarget(t, ver) ==
    [Name |-> t.filename, Sha256Hash |-> t.sha256Hash, Version |-> ver,
     Custom |-> [hardwareIds |-> t.hardwareIds, tags |-> t.tags]]

\* the range-for over t.hardwareIds() from position k on: a hardware id equal
\* to the primary's adds the target and leaves the loop; one equal to a
\* secondary's adds the target and leaves the loop over the secondaries only
RECURSIVE hardwareIdsLoop(_, _, _, _, _, _)
hardwareIdsLoop(t, ver, k, hwidToFind, secondaries, targets) ==
    IF k > Len(t.hardwareIds)
    THEN targets
    ELSE LET it == t.hardwareIds[k]
         IN  IF it = hwidToFind
             THEN Append(targets, TufTarget(t, ver))
             ELSE hardwareIdsLoop(t, ver, k + 1, hwidToFind, secondaries,
                                  IF \E j \in 1..Len(secondaries) : secondaries[j] = it
                                  THEN Append(targets, TufTarget(t, ver))
                                  ELSE targets)

\* the range-for over client_->allTargets() from position k on: the list
\* built, or the exception of std::stoi that nothing catches
RECURSIVE allTargetsLoop(_, _, _, _, _, _)
allTargetsLoop(all, k, config_tags, hwidToFind, secondaries, targets) ==
    IF k > Len(all)
    THEN [thrown |-> "", targets |-> targets]
    ELSE LET t == all[k]
             parsed_ver == stoi(t.custom_version)
             ver == IF parsed_ver.kind = "invalid_argument" THEN -1 ELSE parsed_ver.val
         IN  IF parsed_ver.kind = "out_of_range"
             THEN [thrown |-> "std::out_of_range", targets |-> <<>>]
             ELSE allTargetsLoop(all, k + 1, config_tags, hwidToFind, secondaries,
                                 IF target_has_tags(t, config_tags)
                                 THEN hardwareIdsLoop(t, ver, 1, hwidToFind, secondaries, targets)
                                 ELSE targets)

compareTargets(a, b) == a.Version < b.Version

Unsorted(targets) == {targets}

\* no entry compares less than the one before it
Ordered(q) == \A i \in 1..(Len(q) - 1) : ~compareTargets(q[i + 1], q[i])

InsertAt(q, k, e) == SubSeq(q, 1, k) \o <<e>> \o SubSeq(q, k + 1, Len(q))

\* the ordered arrangements of the first n entries of targets
RECURSIVE Arrangements(_, _)
Arrangements(targets, n) ==
    IF n = 0
    THEN {<<>>}
    ELSE {q \in {InsertAt(r, k, targets[n]) :
                    r \in Arrangements(targets, n - 1), k \in 0..(n - 1)} : Ordered(q)}

\* std::sort(targets.begin(), targets.end(), compareTargets): an arrangement
\* of the list in which no entry compares less than the one before it; which
\* one, among entries of equal version, the sort does not say
Sorted(targets) == Arrangements(targets, Len(targets))

CheckInResult(status, primary_hwid, targets) ==
    [status |-> status, primary_hwid |-> primary_hwid, targets |-> targets]

CheckIn ==
    /\ apc = "start"
    /\ \E updated \in BOOLEAN, offline \in BOOLEAN :
          LET hwidToFind == primary_ecu_hardware_id
              loop == allTargetsLoop(allTargets, 1, tags, hwidToFind, secondary_hwids_, <<>>)
          IN  IF ~updated /\ ~offline
              THEN checkin' = CheckInResult("Failed", "", <<>>)
              ELSE IF loop.thrown # ""
              THEN checkin' = CheckInResult(loop.thrown, "", <<>>)
              ELSE \E sorted \in Sorted(loop.targets) :
                      checkin' = CheckInResult(IF updated THEN "Ok" ELSE "OkCached",
                                               primary_ecu_hardware_id, sorted)
    /\ apc' = "done"
    /\ UNCHANGED <<allTargets, tags, primary_ecu_hardware_id, secondary_hwids_, latest>>
    /\ UNCHANGED <<nvars, dvars, cvars, ivars, bvars, uvars>>

NotCalled == [hwid |-> "", thrown |-> "", target |-> <<>>]

GetLatestFirstMatch(result, hwid_in) ==
    LET hwid == IF hwid_in = "" THEN result.primary_hwid ELSE hwid_in
        matches == {i \in 1..Len(result.targets) :
                      result.targets[i].Custom.hardwareIds[1] = hwid}
    IN  IF matches = {}
        THEN [hwid |-> hwid_in, thrown |-> "std::runtime_error", target |-> <<>>]
        ELSE [hwid |-> hwid_in, thrown |-> "",
              target |-> result.targets[CHOOSE i \in matches : \A j \in matches : i <= j]]

\* the loop of GetLatest from crbegin() on: position it of targets_, going down
RECURSIVE reverseLoop(_, _, _)
reverseLoop(targets_, it, hwid) ==
    IF it = 0
    THEN [thrown |-> "std::runtime_error", target |-> <<>>]
    ELSE IF targets_[it].Custom.hardwareIds[1] = hwid
    THEN [thrown |-> "", target |-> targets_[it]]
    ELSE reverseLoop(targets_, it - 1, hwid)

\* CheckInResult::GetLatest(hwid)
GetLatest(result, hwid_in) ==
    LET hwid == IF hwid_in = "" THEN result.primary_hwid ELSE hwid_in
        found == reverseLoop(result.targets, Len(result.targets), hwid)
    IN  [hwid |-> hwid_in, thrown |-> found.thrown, target |-> found.target]

\* the caller asks the CheckInResult it got for the latest target
CheckInResult_GetLatest ==
    /\ apc = "done"
    /\ checkin.status \in {"Ok", "OkCached", "Failed"}
    /\ \E hwid \in {"", "p", "s", "x"} : latest' = GetLatest(checkin, hwid)
    /\ apc' = "latest"
    /\ UNCHANGED <<allTargets, tags, primary_ecu_hardware_id, secondary_hwids_, checkin>>
    /\ UNCHANGED <<nvars, dvars, cvars, ivars, bvars, uvars>>

ApiNext ==
    \/ CheckIn
    \/ CheckInResult_GetLatest

\* custom version strings of targets: numbers, no number, and a number
\* outside the range of int
CustomVersions ==
    {<<"1">>, <<"2">>, <<"v", "1">>, Rep("9", 20)}

TargetNames == <<"T1", "T2", "T3">>

TargetHashes == <<"H1", "H2", "H3">>

\* the targets of the TUF metadata, the k-th named TargetNames[k]
TufTargets(k) ==
    [filename : {TargetNames[k]},
     sha256Hash : {TargetHashes[k]},
     custom_version : CustomVersions,
     tags : {{"main"}, {"devel"}},
     hardwareIds : {<<"p">>, <<"s">>, <<"s", "p">>}]

\* the lists of n targets
RECURSIVE TargetLists(_)
TargetLists(n) ==
    IF n = 0
    THEN {<<>>}
    ELSE {Append(a, t) : a \in TargetLists(n - 1), t \in TufTargets(n)}

ApiInit ==
    /\ \E n \in 0..MaxTargets : allTargets \in TargetLists(n)
    /\ tags \in {{"main"}, {"main", "devel"}}
    /\ primary_ecu_hardware_id = "p"
    /\ secondary_hwids_ \in {<<>>, <<"s">>}
    /\ apc = "start"
    /\ checkin = CheckInResult("", "", <<>>)
    /\ latest = NotCalled

ApiIdle ==
    /\ allTargets = <<>>
    /\ tags = {}
    /\ primary_ecu_hardware_id = ""
    /\ secondary_hwids_ = <<>>
    /\ apc = "idle"
    /\ checkin = CheckInResult("", "", <<>>)
    /\ latest = NotCalled

\* ------------------------------------------------------------------
\* aklite::cli::Install (src/unnamed/part_001)

str2Mode == [m \in {"delay-app-install"} |-> "OstreeOnly"]

i2s ==
    [s \in {"Ok", "OkBootFwNeedsCompletion", "NeedsCompletion", "AppsNeedCompletion",
            "BootFwNeedsCompletion", "DownloadFailed"} |->
        CASE s = "Ok" -> "Ok"
          [] s = "OkBootFwNeedsCompletion" -> "OkNeedsRebootForBootFw"
          [] s = "NeedsCompletion" -> "InstallNeedsReboot"
          [] s = "AppsNeedCompletion" -> "InstallAppsNeedFinalization"
          [] s = "BootFwNeedsCompletion" -> "InstallNeedsRebootForBootFw"
          [] s = "DownloadFailed" -> "InstallAppPullFailure"]

\* a default-constructed TufTarget
UnknownTarget ==
    [Name |-> "unknown", Sha256Hash |-> "", Version |-> -1,
     Custom |-> [hardwareIds |-> <<>>, tags |-> {}]]

IsUnknown(t) == t.Name = "unknown"

\* InstallResult::operator bool
InstallResult_bool(r) ==
    r.status \in {"Ok", "OkBootFwNeedsCompletion", "NeedsCompletion",
                  "AppsNeedCompletion", "BootFwNeedsCompletion"}

InstallResult(status) == [status |-> status, description |-> <<>>]

NoInstallResult == InstallResult("none")

\* what LiteClient::install answers
InstallCodes == {"kOk", "kNeedCompletion", "kInstallFailed"}

LiteInstall_Install(rc) ==
    InstallResult(IF rc = "kNeedCompletion" THEN "NeedsCompletion"
                  ELSE IF rc = "kOk" THEN "Ok"
                  ELSE "Failed")

\* the statuses LiteInstall::Download returns
DownloadStatuses == {"Ok", "DownloadFailed", "VerificationFailed"}

\* the range-for over cr.Targets(), from position i on
RECURSIVE targetsLoop(_, _, _, _)
targetsLoop(targets, i, version, target_name) ==
    IF i > Len(targets) THEN UnknownTarget
    ELSE IF targets[i].Version = version \/ targets[i].Name = target_name
    THEN targets[i]
    ELSE targetsLoop(targets, i + 1, version, target_name)

downgradeRefusedNever(cur, t, force_downgrade) == FALSE

downgradeRefused(cur, t, force_downgrade) ==
    cur.Version > t.Version /\ ~force_downgrade

inProgressIgnored(c) == FALSE

inProgress(c) == c.IsInstallationInProgress

CliInstall_Start ==
    /\ kpc = "start"
    /\ mode' = IF cli_args.install_mode # ""
                  /\ cli_args.install_mode \in DOMAIN str2Mode
               THEN str2Mode[cli_args.install_mode]
               ELSE "All"
    /\ IF inProgress(client)
       THEN /\ klog' = <<"IsInstallationInProgress", "GetPendingTarget">>
            /\ install_status' = "InstallationInProgress"
            /\ kpc' = "done"
       ELSE /\ klog' = <<"IsInstallationInProgress", "GetCurrent",
                         IF cli_args.local_update_source THEN "CheckInLocal" ELSE "CheckIn">>
            /\ IF client.CheckIn.status = "Failed"
               THEN /\ install_status' = "TufMetaPullFailure"
                    /\ kpc' = "done"
               ELSE /\ install_status' = install_status
                    /\ kpc' = "find"
    /\ UNCHANGED <<cli_args, client, cli_target, ir, install_results>>
    /\ UNCHANGED <<dvars, cvars, ivars, bvars, uvars, avars, mvars, wvars, fvars, xvars>>

CliInstall_FindTarget ==
    /\ kpc = "find"
    /\ LET cr == client.CheckIn
           cur == client.GetCurrent
           latest_ == cli_args.version = -1 /\ cli_args.target_name = ""
           got == IF latest_ THEN GetLatest(cr, "")
                  ELSE [thrown |-> "",
                        target |-> targetsLoop(cr.targets, 1, cli_args.version,
                                               cli_args.target_name)]
           called == IF latest_ THEN <<"GetLatest">> ELSE <<>>
       IN  IF got.thrown # ""
           THEN /\ install_status' = got.thrown
                /\ kpc' = "done"
                /\ klog' = klog \o called
                /\ cli_target' = cli_target
           ELSE /\ cli_target' = got.target
                /\ IF IsUnknown(got.target)
                   THEN /\ install_status' = "TufTargetNotFound"
                        /\ kpc' = "done"
                        /\ klog' = klog \o called
                   ELSE IF downgradeRefused(cur, got.target, cli_args.force_downgrade)
                   THEN /\ install_status' = "InstallDowngradeAttempt"
                        /\ kpc' = "done"
                        /\ klog' = klog \o called
                   ELSE IF cur = got.target
                   THEN \E apps \in {"nullptr", "ctx"} :
                           /\ klog' = klog \o called \o <<"CheckAppsInSync">>
                           /\ IF apps = "nullptr" /\ cli_args.local_update_source
                              THEN /\ install_status' = "InstallAlreadyInstalled"
                                   /\ kpc' = "done"
                              ELSE /\ install_status' = install_status
                                   /\ kpc' = "installer"
                   ELSE /\ klog' = klog \o called
                        /\ install_status' = install_status
                        /\ kpc' = "installer"
    /\ UNCHANGED <<cli_args, client, mode, ir, install_results>>
    /\ UNCHANGED <<dvars, cvars, ivars, bvars, uvars, avars, mvars, wvars, fvars, xvars>>

CliInstall_Download ==
    /\ kpc = "installer"
    /\ \E installer \in {"nullptr", "ctx"} :
          IF installer = "nullptr"
          THEN /\ klog' = klog \o <<"Installer">>
               /\ install_status' = "UnknownError"
               /\ kpc' = "done"
          ELSE \E status \in DownloadStatuses :
                  /\ klog' = klog \o <<"Installer", "Download">>
                  /\ IF status # "Ok"
                     THEN /\ install_status' = res2StatusCode(d2s, status)
                          /\ kpc' = "done"
                     ELSE /\ install_status' = install_status
                          /\ kpc' = "install"
    /\ UNCHANGED <<cli_args, client, mode, cli_target, ir, install_results>>
    /\ UNCHANGED <<dvars, cvars, ivars, bvars, uvars, avars, mvars, wvars, fvars, xvars>>

rollbackStatusCodeMapped(rollback_ir) == res2StatusCode(i2s, rollback_ir.status)

\* what the command returns after the install of the previous target
rollbackStatusCode(rollback_ir) ==
    IF rollback_ir.status = "Ok" THEN "InstallRollbackOk" ELSE "InstallRollbackFailed"

CliInstall_Install ==
    /\ kpc = "install"
    /\ \E rc \in InstallCodes :
          LET first == LiteInstall_Install(rc)
          IN  IF ~InstallResult_bool(first) /\ first.status = "Failed"
              THEN \E installer \in {"nullptr", "ctx"} :
                      IF installer = "nullptr"
                      THEN /\ ir' = first
                           /\ klog' = klog \o <<"Install", "Installer(current)">>
                           /\ install_results' = <<first.status>>
                           /\ install_status' = "InstallRollbackFailed"
                      ELSE \E rc2 \in InstallCodes :
                              /\ ir' = LiteInstall_Install(rc2)
                              /\ klog' = klog \o <<"Install", "Installer(current)",
                                                   "Install(current)">>
                              /\ install_results' = <<first.status, ir'.status>>
                              /\ install_status' = rollbackStatusCode(ir')
              ELSE /\ ir' = first
                   /\ klog' = klog \o <<"Install">>
                   /\ install_results' = <<first.status>>
                   /\ install_status' = res2StatusCode(i2s, first.status)
    /\ kpc' = "done"
    /\ UNCHANGED <<cli_args, client, mode, cli_target>>
    /\ UNCHANGED <<dvars, cvars, ivars, bvars, uvars, avars, mvars, wvars, fvars, xvars>>

CliInstallNext ==
    \/ CliInstall_Start
    \/ CliInstall_FindTarget
    \/ CliInstall_Download
    \/ CliInstall_Install

\* the targets a check-in lists, the k-th named TargetNames[k]
ListedTargets(k) ==
    {TufTarget([filename |-> TargetNames[k], sha256Hash |-> TargetHashes[k],
                hardwareIds |-> h, tags |-> {"main"}], v) :
        h \in {<<"p">>, <<"s">>}, v \in {-1, 1, 2}}

\* the lists CheckIn returns: sorted by version
RECURSIVE CheckInLists(_)
CheckInLists(n) ==
    IF n = 0 THEN {<<>>}
    ELSE {q \in {Append(a, t) : a \in CheckInLists(n - 1), t \in ListedTargets(n)} :
             Ordered(q)}

CheckInResults ==
    {CheckInResult("Failed", "", <<>>)}
    \cup {CheckInResult(s, "p", q) :
             s \in {"Ok", "OkCached"},
             q \in UNION {CheckInLists(n) : n \in 0..MaxTargets}}

CliInstallInit ==
    /\ cli_args \in [version : {-1, 1, 2},
                     target_name : {"", "T1", "T2", "T9"},
                     install_mode : {"", "delay-app-install", "bogus"},
                     force_downgrade : BOOLEAN,
                     local_update_source : BOOLEAN]
    /\ client \in [IsInstallationInProgress : BOOLEAN,
                   GetCurrent : {t \in ListedTargets(1) \cup ListedTargets(2) :
                                    t.Version > 0 /\ t.Custom.hardwareIds = <<"p">>},
                   CheckIn : CheckInResults]
    /\ mode = "All"
    /\ cli_target = UnknownTarget
    /\ ir = NoInstallResult
    /\ kpc = "start"
    /\ install_status = "none"
    /\ klog = <<>>
    /\ install_results = <<>>

CliInstallIdle ==
    /\ cli_args = <<>>
    /\ client = <<>>
    /\ mode = "All"
    /\ cli_target = UnknownTarget
    /\ ir = NoInstallResult
    /\ kpc = "idle"
    /\ install_status = "none"
    /\ klog = <<>>
    /\ install_results = <<>>

\* ------------------------------------------------------------------
\* aklite::cli::CompleteInstall (src/unnamed/part_001)

\* a call CompleteInstall makes, with its answer
MEv(op, rc) == [op |-> op, rc |-> rc]

\* the results AkliteClient::CompleteInstallation produces
CompleteInstallationStatuses == {"Ok", "OkBootFwNeedsCompletion", "NeedsCompletion", "Failed"}

\* the targets a device knows as current or pending
DeviceTargets ==
    {TufTarget([filename |-> TargetNames[k], sha256Hash |-> TargetHashes[k],
                hardwareIds |-> <<"p">>, tags |-> {"main"}], k) : k \in 1..3}

noPendingIgnored(c) == FALSE

noPending(c) == ~c.IsInstallationInProgress

bootloaderDrivenNever(cur, pend) == FALSE

bootloaderDrivenAlways(cur, pend) == TRUE

\* the device booted another deployment than the pending one
bootloaderDriven(cur, pend) == cur.Sha256Hash # pend.Sha256Hash

CompleteInstall_Begin ==
    /\ complete_pc = "start"
    /\ IF noPending(complete_client)
       THEN /\ complete_log' = <<MEv("IsInstallationInProgress", FALSE)>>
            /\ complete_status' = "NoPendingInstallation"
            /\ complete_pc' = "done"
       ELSE LET result == InstallResult(complete_client.CompleteInstallation)
                calls == <<MEv("IsInstallationInProgress", TRUE),
                           MEv("GetPendingTarget", complete_client.GetPendingTarget.Name),
                           MEv("CompleteInstallation", result.status)>>
            IN  IF ~InstallResult_bool(result)
                THEN /\ complete_log' =
                           calls \o <<MEv("GetCurrent", complete_client.GetCurrent.Name)>>
                     /\ complete_status' = complete_status
                     /\ complete_pc' = "rollback"
                ELSE /\ complete_log' = calls
                     /\ complete_status' = res2StatusCode(i2s, result.status)
                     /\ complete_pc' = "done"
    /\ UNCHANGED complete_client
    /\ UNCHANGED <<dvars, cvars, ivars, bvars, uvars, avars, kvars, wvars, fvars, xvars>>

CompleteInstall_Rollback ==
    /\ complete_pc = "rollback"
    /\ IF bootloaderDriven(complete_client.GetCurrent, complete_client.GetPendingTarget)
       THEN \E ri \in {"nullptr", "ctx"} :
               IF ri = "nullptr"
               THEN /\ complete_log' = complete_log \o <<MEv("CheckAppsInSync", ri)>>
                    /\ complete_status' = "InstallRollbackOk"
               ELSE \E rc \in InstallCodes :
                       LET rir == LiteInstall_Install(rc)
                       IN  /\ complete_log' = complete_log \o
                                  <<MEv("CheckAppsInSync", ri), MEv("Install", rir.status)>>
                           /\ complete_status' =
                                  IF rir.status = "Ok" THEN "InstallRollbackOk"
                                  ELSE "InstallRollbackFailed"
       ELSE \E rollback_target \in DeviceTargets \cup {UnknownTarget} :
               IF IsUnknown(rollback_target)
               THEN /\ complete_log' = complete_log \o
                           <<MEv("GetRollbackTarget", rollback_target.Name)>>
                    /\ complete_status' = "InstallRollbackFailed"
               ELSE \E ri \in {"nullptr", "ctx"} :
                       IF ri = "nullptr"
                       THEN /\ complete_log' = complete_log \o
                                   <<MEv("GetRollbackTarget", rollback_target.Name),
                                     MEv("Installer", ri)>>
                            /\ complete_status' = "UnknownError"
                       ELSE \E rc \in InstallCodes :
                               LET rir == LiteInstall_Install(rc)
                               IN  /\ complete_log' = complete_log \o
                                          <<MEv("GetRollbackTarget", rollback_target.Name),
                                            MEv("Installer", ri),
                                            MEv("Install", rir.status)>>
                                   /\ complete_status' =
                                          IF rir.status = "NeedsCompletion"
                                          THEN "InstallRollbackNeedsReboot"
                                          ELSE "InstallRollbackFailed"
    /\ complete_pc' = "done"
    /\ UNCHANGED complete_client
    /\ UNCHANGED <<dvars, cvars, ivars, bvars, uvars, avars, kvars, wvars, fvars, xvars>>

CompleteInstallNext ==
    \/ CompleteInstall_Begin
    \/ CompleteInstall_Rollback

CompleteInstallInit ==
    /\ complete_client \in [IsInstallationInProgress : BOOLEAN,
                            GetPendingTarget : DeviceTargets,
                            GetCurrent : DeviceTargets,
                            CompleteInstallation : CompleteInstallationStatuses]
    /\ complete_pc = "start"
    /\ complete_status = "none"
    /\ complete_log = <<>>

CompleteInstallIdle ==
    /\ complete_client = <<>>
    /\ complete_pc = "idle"
    /\ complete_status = "none"
    /\ complete_log = <<>>

\* ------------------------------------------------------------------
\* RootfsTreeManager::Config::Config (src/src/rootfstreemanager.cc)

DefaultSysrootStorageWatermark == 90

MinSysrootStorageWatermark == 50

MaxSysrootStorageWatermark == 95

\* pconfig.extra.count(key) and pconfig.extra.at(key), for the values in S
Params(S) == {[count |-> 0, at |-> <<>>]} \cup {[count |-> 1, at |-> val] : val \in S}

\* a decimal numeral as an unsigned value split at 10^5, so that values up
\* to UINT_MAX = 42949 * 10^5 + 67295 stay within 32-bit integers;
\* digits holds no leading zero and at most ten digits
SplitValue(digits) ==
    LET n == Len(digits)
        low == IF n > 5 THEN SubSeq(digits, n - 4, n) ELSE digits
        high == IF n > 5 THEN SubSeq(digits, 1, n - 5) ELSE <<>>
    IN  [hi |-> DecimalValue(high), lo |-> DecimalValue(low)]

RECURSIVE StripZeros(_)
StripZeros(digits) ==
    IF digits # <<>> /\ digits[1] = "0" THEN StripZeros(Tail(digits)) ELSE digits

\* the value does not exceed UINT_MAX
FitsUnsigned(digits) ==
    LET d == StripZeros(digits)
    IN  /\ Len(d) <= 10
        /\ LET v == SplitValue(d)
           IN  v.hi < 42949 \/ (v.hi = 42949 /\ v.lo <= 67295)

\* 0u - v in 32-bit unsigned arithmetic
NegateUnsigned(v) ==
    IF v.hi = 0 /\ v.lo = 0 THEN v
    ELSE IF v.lo <= 67296
    THEN [hi |-> 42949 - v.hi, lo |-> 67296 - v.lo]
    ELSE [hi |-> 42948 - v.hi, lo |-> 167296 - v.lo]

\* boost::lexical_cast<unsigned int>: an optional sign, then digits only; a
\* value above UINT_MAX is refused; a minus sign negates the unsigned value
lexical_cast_unsigned(val_str) ==
    LET has_minus == val_str # <<>> /\ val_str[1] = "-"
        has_sign == has_minus \/ (val_str # <<>> /\ val_str[1] = "+")
        digits == IF has_sign THEN Tail(val_str) ELSE val_str
    IN  IF digits # <<>> /\ (\A k \in 1..Len(digits) : digits[k] \in Digits)
           /\ FitsUnsigned(digits)
        THEN [thrown |-> "",
              val |-> IF has_minus THEN NegateUnsigned(SplitValue(StripZeros(digits)))
                      ELSE SplitValue(StripZeros(digits))]
        ELSE [thrown |-> "bad_lexical_cast", val |-> [hi |-> 0, lo |-> 0]]

\* the members of Config before the constructor body runs
ConfigDefaults ==
    [UpdateBlock |-> FALSE, SysrootStorageWatermark |-> DefaultSysrootStorageWatermark]

Config_Config ==
    /\ wpc = "start"
    /\ LET block == IF extra.UpdateBlock.count = 1
                    THEN extra.UpdateBlock.at # <<"0">>
                         /\ extra.UpdateBlock.at # <<"f", "a", "l", "s", "e">>
                    ELSE ConfigDefaults.UpdateBlock
           cast == lexical_cast_unsigned(extra.SysrootStorageWatermark.at)
           mark == IF extra.SysrootStorageWatermark.count # 1 \/ cast.thrown # ""
                   THEN ConfigDefaults.SysrootStorageWatermark
                   ELSE IF cast.val.hi = 0 /\ cast.val.lo < MinSysrootStorageWatermark
                   THEN MinSysrootStorageWatermark
                   ELSE IF cast.val.hi > 0 \/ cast.val.lo > MaxSysrootStorageWatermark
                   THEN MaxSysrootStorageWatermark
                   ELSE cast.val.lo
       IN  Config' = [UpdateBlock |-> block, SysrootStorageWatermark |-> mark]
    /\ wpc' = "done"
    /\ UNCHANGED extra
    /\ UNCHANGED <<dvars, cvars, ivars, bvars, uvars, avars, kvars, mvars, fvars, xvars>>

ConfigNext == Config_Config

\* digit strings around the limits, the default and UINT_MAX
WatermarkDigits ==
    {<<"0">>, <<"1">>, <<"3", "0">>, <<"4", "9">>, <<"5", "0">>, <<"5", "1">>,
     <<"9", "0">>, <<"9", "5">>, <<"9", "6">>, <<"9", "9">>, <<"0", "6", "0">>,
     <<"1", "0", "0", "0", "0", "0">>,
     <<"4", "2", "9", "4", "9", "6", "7", "2", "4", "6">>,
     <<"4", "2", "9", "4", "9", "6", "7", "2", "9", "5">>,
     <<"4", "2", "9", "4", "9", "6", "7", "2", "9", "6">>}

WatermarkStrings ==
    {sign \o d : sign \in {<<>>, <<"-">>, <<"+">>}, d \in WatermarkDigits}
    \cup {<<>>, <<"-">>, <<"a", "b", "c">>, <<" ", "6", "0">>, <<"6", "0", " ">>,
          <<"6", "0", ".", "5">>, <<"0", "x", "3", "C">>}

UpdateBlockStrings ==
    {<<"0">>, <<"1">>, <<"f", "a", "l", "s", "e">>, <<"t", "r", "u", "e">>, <<>>}

ConfigInit ==
    /\ extra \in [UpdateBlock : Params(UpdateBlockStrings),
                  SysrootStorageWatermark : Params(WatermarkStrings)]
    /\ Config = ConfigDefaults
    /\ wpc = "start"

ConfigIdle ==
    /\ extra = <<>>
    /\ Config = ConfigDefaults
    /\ wpc = "idle"

\* ------------------------------------------------------------------
\* RootfsTreeManager::canDeltaFitOnDisk, called on its own

NotComputed ==
    [blocks_required_by_delta |-> 0, max_blocks_available_for_update |-> 0,
     update_stat |-> [storageCapacity |-> 0, highWatermark |-> 0, maxAvailable |-> 0,
                      available |-> 0, deltaSize |-> 0],
     returned |-> FALSE]

Admission_canDeltaFitOnDisk ==
    /\ fpc = "start"
    /\ LET storage == fit_in.storage
           watermark == fit_in.highWatermark
       IN  fit_out' =
              [blocks_required_by_delta |-> blocks_required_by_delta(fit_in.delta_stat, storage),
               max_blocks_available_for_update |->
                   max_blocks_available_for_update(storage, watermark),
               update_stat |->
                   [storageCapacity |-> storage.blockSize * storage.blockNumb,
                    highWatermark |-> watermark,
                    maxAvailable |-> max_blocks_available(storage, watermark) * storage.blockSize,
                    available |-> max_blocks_available_for_update(storage, watermark)
                                     * storage.blockSize,
                    deltaSize |-> fit_in.delta_stat.uncompressedSize],
               returned |-> canDeltaFitOnDisk(fit_in.delta_stat, storage, watermark)]
    /\ fpc' = "done"
    /\ UNCHANGED fit_in
    /\ UNCHANGED <<dvars, cvars, ivars, bvars, uvars, avars, kvars, mvars, wvars, xvars>>

AdmissionNext == Admission_canDeltaFitOnDisk

\* what statvfs reports: block counts and block sizes of small and usual
\* file systems
AdmissionStorageStats ==
    {st \in [blockNumb : {10, 100, 1000}, freeBlockNumb : {0, 2, 100, 200},
             blockSize : {1, 4096}] : st.freeBlockNumb <= st.blockNumb}

AdmissionInit ==
    /\ fit_in \in [delta_stat : {[size |-> 0, uncompressedSize |-> u] :
                                    u \in {0, 1, 56, 57, 4096, 4097, 500000}},
                    storage : AdmissionStorageStats,
                    highWatermark : {50, 57, 90, 95}]
    /\ fit_out = NotComputed
    /\ fpc = "start"

AdmissionIdle ==
    /\ fit_in = <<>>
    /\ fit_out = NotComputed
    /\ fpc = "idle"

\* ------------------------------------------------------------------
\* RootfsTreeManager::downloadDeltaStats

DeltaStatsMaxSize == 1048576

\* Json::nullValue
nullValue == [isNull |-> TRUE]

\* what the server of the remote answers to GET <baseUrl>/delta-stats/<sha256>:
\* the status, the body, and what HttpResponse::getJson makes of the body
DeltaStatsResponses ==
    [isOk : BOOLEAN,
     body : UNION {[1..n -> Bytes] : n \in 0..MaxChunk},
     json : {nullValue, [isNull |-> FALSE]}]

\* the delta-stats reference of a Target: sha256 as the Target spells it,
\* in either case, and sizes around the lengths of the bodies and the cap
DeltaStatsRefs ==
    [sha256 : DigestHashes \cup {<<UpperHex[v]>> : v \in 11..DigestValues},
     size : 0..(MaxChunk + 1) \cup {DeltaStatsMaxSize, DeltaStatsMaxSize + 1}]

hashCheckSkipped(received_data_hash, sha256) == FALSE

\* received_data_hash != ref.sha256
hashMismatch(received_data_hash, sha256) == received_data_hash # sha256

\* the cap check: nothing is fetched for a reference over the cap
downloadDeltaStats_Begin ==
    /\ stats_pc = "start"
    /\ IF stats_ref.size > DeltaStatsMaxSize
       THEN /\ stats_json' = nullValue
            /\ stats_pc' = "done"
       ELSE /\ stats_pc' = "get"
            /\ UNCHANGED stats_json
    /\ UNCHANGED <<stats_ref, stats_resp, stats_log>>
    /\ UNCHANGED <<dvars, cvars, ivars, bvars, uvars, avars, kvars, mvars, wvars, fvars, gvars>>

\* client.get(uri, ref.size) and the checks of what came back
downloadDeltaStats_Get ==
    /\ stats_pc = "get"
    /\ stats_log' = Append(stats_log, [op |-> "get", uri |-> <<"/delta-stats/">> \o stats_ref.sha256])
    /\ LET resp == stats_resp
           received_data_hash == to_lower_copy(getHexDigest(resp.body))
       IN  stats_json' =
              IF ~resp.isOk THEN nullValue
              ELSE IF Len(resp.body) # stats_ref.size THEN nullValue
              ELSE IF hashMismatch(received_data_hash, stats_ref.sha256) THEN nullValue
              ELSE resp.json
    /\ stats_pc' = "done"
    /\ UNCHANGED <<stats_ref, stats_resp>>
    /\ UNCHANGED <<dvars, cvars, ivars, bvars, uvars, avars, kvars, mvars, wvars, fvars, gvars>>

DeltaStatsNext ==
    \/ downloadDeltaStats_Begin
    \/ downloadDeltaStats_Get

DeltaStatsInit ==
    /\ stats_ref \in DeltaStatsRefs
    /\ stats_resp \in DeltaStatsResponses
    /\ stats_pc = "start"
    /\ stats_json = nullValue
    /\ stats_log = <<>>

DeltaStatsIdle ==
    /\ stats_ref = <<>>
    /\ stats_resp = <<>>
    /\ stats_pc = "idle"
    /\ stats_json = nullValue
    /\ stats_log = <<>>

\* ------------------------------------------------------------------
\* Docker::RegistryClient: the requests of getAppManifest and downloadBlob

\* calls made on one RegistryClient
MaxCalls == 2

\* what the credentials endpoint answers: the status and the strings
\* getJson()["Username"] and ["Secret"] give, "" for a missing member
CredsResponses == [isOk : BOOLEAN, Username : {"", "u"}, Secret : {"", "s"}]

\* what the token endpoint answers: the status and getJson()["token"]
TokenResponses == [isOk : BOOLEAN, token : {"", "t1", "t2"}]

NoHeader == <<>>

Request(endpoint, authorization, resp) ==
    [endpoint |-> endpoint, call |-> registry_calls, authorization |-> authorization,
     resp |-> resp]

credsInvalidUsernameOnly(username, secret) == username = ""

\* username.empty() || secret.empty()
credsInvalid(username, secret) == username = "" \/ secret = ""

\* getAppManifest or downloadBlob is called
RegistryClient_call ==
    /\ registry_pc = "idle"
    /\ registry_calls < MaxCalls
    /\ \E f \in {"getAppManifest", "downloadBlob"} :
          registry_call' = f
    /\ registry_calls' = registry_calls + 1
    /\ registry_res' = Append(registry_res, "running")
    /\ registry_pc' = "getBasicAuthHeader"
    /\ UNCHANGED <<basic_auth, bearer_auth, registry_log>>
    /\ UNCHANGED <<dvars, cvars, ivars, bvars, uvars, avars, kvars, mvars, wvars, fvars, svars>>

\* the header is kept as the parts it is made of: the scheme and what
\* follows it
getBasicAuthHeader ==
    /\ registry_pc = "getBasicAuthHeader"
    /\ \E creds_resp \in CredsResponses :
          /\ registry_log' = Append(registry_log,
                                    Request("auth_creds_endpoint_", NoHeader, creds_resp))
          /\ IF ~creds_resp.isOk
             THEN /\ registry_res' = [registry_res EXCEPT ![registry_calls] =
                                          "Failed to get Docker Registry credentials"]
                  /\ registry_pc' = "idle"
                  /\ basic_auth' = NoHeader
             ELSE IF credsInvalid(creds_resp.Username, creds_resp.Secret)
             THEN /\ registry_res' = [registry_res EXCEPT ![registry_calls] =
                                          "Got invalid Docker Registry credentials"]
                  /\ registry_pc' = "idle"
                  /\ basic_auth' = NoHeader
             ELSE /\ registry_res' = registry_res
                  /\ registry_pc' = "getBearerAuthHeader"
                  /\ basic_auth' = <<"basic", creds_resp.Username, ":", creds_resp.Secret>>
    /\ UNCHANGED <<registry_call, registry_calls, bearer_auth>>
    /\ UNCHANGED <<dvars, cvars, ivars, bvars, uvars, avars, kvars, mvars, wvars, fvars, svars>>

getBearerAuthHeader ==
    /\ registry_pc = "getBearerAuthHeader"
    /\ \E token_resp \in TokenResponses :
          /\ registry_log' = Append(registry_log, Request("/token-auth/", basic_auth, token_resp))
          /\ IF ~token_resp.isOk
             THEN /\ registry_res' = [registry_res EXCEPT ![registry_calls] =
                                          "Failed to get Auth Token at Docker Registry"]
                  /\ registry_pc' = "idle"
                  /\ bearer_auth' = NoHeader
             ELSE IF token_resp.token = ""
             THEN /\ registry_res' = [registry_res EXCEPT ![registry_calls] =
                                          "Got invalid token from Docker Registry"]
                  /\ registry_pc' = "idle"
                  /\ bearer_auth' = NoHeader
             ELSE /\ registry_res' = registry_res
                  /\ registry_pc' = "request"
                  /\ bearer_auth' = <<"bearer", token_resp.token>>
    /\ UNCHANGED <<registry_call, registry_calls, basic_auth>>
    /\ UNCHANGED <<dvars, cvars, ivars, bvars, uvars, avars, kvars, mvars, wvars, fvars, svars>>

\* registry_repo_client->get(manifest_url, ManifestMaxSize) or
\* registry_repo_client->download(compose_app_blob_url, ...), and how the
\* call ends after the checks of what was received
RegistryClient_request ==
    /\ registry_pc = "request"
    /\ \E isOk \in BOOLEAN : \E accepted \in BOOLEAN :
          /\ registry_log' =
                Append(registry_log,
                       Request(IF registry_call = "getAppManifest" THEN "/manifests/"
                               ELSE "/blobs/",
                               bearer_auth, [isOk |-> isOk]))
          /\ registry_res' =
                [registry_res EXCEPT ![registry_calls] =
                    IF ~isOk THEN "Failed to download"
                    ELSE IF ~accepted THEN "size or hash do not match"
                    ELSE "returned"]
    /\ registry_pc' = "idle"
    /\ basic_auth' = NoHeader
    /\ bearer_auth' = NoHeader
    /\ UNCHANGED <<registry_call, registry_calls>>
    /\ UNCHANGED <<dvars, cvars, ivars, bvars, uvars, avars, kvars, mvars, wvars, fvars, svars>>

RegistryNext ==
    \/ RegistryClient_call
    \/ getBasicAuthHeader
    \/ getBearerAuthHeader
    \/ RegistryClient_request

RegistryInit ==
    /\ registry_call = ""
    /\ registry_calls = 0
    /\ registry_pc = "idle"
    /\ basic_auth = NoHeader
    /\ bearer_auth = NoHeader
    /\ registry_log = <<>>
    /\ registry_res = <<>>

RegistryIdle ==
    /\ registry_call = ""
    /\ registry_calls = 0
    /\ registry_pc = "unused"
    /\ basic_auth = NoHeader
    /\ bearer_auth = NoHeader
    /\ registry_log = <<>>
    /\ registry_res = <<>>

DownloadIdle ==
    /\ ostree_server = <<>>
    /\ highWatermark = 90
    /\ gw = NotAsked
    /\ remotes = <<>>
    /\ idx = 0
    /\ dpc = "unused"
    /\ delta_stat = NoDelta
    /\ update_stat = NoStat
    /\ error_desc = <<>>
    /\ res = OkResult
    /\ dlog = <<>>

CliIdle ==
    /\ cpc = "idle"
    /\ dr = OkResult
    /\ cli_status = "none"
    /\ clog = <<>>

InstallIdle ==
    /\ cfg_UpdateBlock = FALSE
    /\ boot = [none |-> TRUE]
    /\ current = ""
    /\ pending = ""
    /\ target = ""
    /\ ipc = "idle"
    /\ ires = InstallationResult("kUnknown", <<>>)
    /\ ilog = <<>>

InitDownload == DownloadInit /\ CliIdle /\ InstallIdle /\ BlobIdle /\ UriIdle /\ ApiIdle /\ CliInstallIdle /\ CompleteInstallIdle /\ ConfigIdle /\ AdmissionIdle /\ DeltaStatsIdle /\ RegistryIdle

SpecDownload == InitDownload /\ [][DownloadNext]_vars

InitCli == DownloadInit /\ CliIdle /\ InstallIdle /\ BlobIdle /\ UriIdle /\ ApiIdle /\ CliInstallIdle /\ CompleteInstallIdle /\ ConfigIdle /\ AdmissionIdle /\ DeltaStatsIdle /\ RegistryIdle

SpecCli == InitCli /\ [][CliNext]_vars

InitInstall == InstallInit /\ CliIdle /\ DownloadIdle /\ BlobIdle /\ UriIdle /\ ApiIdle /\ CliInstallIdle /\ CompleteInstallIdle /\ ConfigIdle /\ AdmissionIdle /\ DeltaStatsIdle /\ RegistryIdle

SpecInstall == InitInstall /\ [][InstallNext]_vars

SpecInstallTwice == InitInstall /\ [][InstallTwiceNext]_vars

InitBlob == BlobInit /\ DownloadIdle /\ CliIdle /\ InstallIdle /\ UriIdle /\ ApiIdle /\ CliInstallIdle /\ CompleteInstallIdle /\ ConfigIdle /\ AdmissionIdle /\ DeltaStatsIdle /\ RegistryIdle

SpecBlob == InitBlob /\ [][BlobNext]_vars

InitUri == UriInit /\ DownloadIdle /\ CliIdle /\ InstallIdle /\ BlobIdle /\ ApiIdle /\ CliInstallIdle /\ CompleteInstallIdle /\ ConfigIdle /\ AdmissionIdle /\ DeltaStatsIdle /\ RegistryIdle

SpecUri == InitUri /\ [][UriNext]_vars

InitApi == ApiInit /\ DownloadIdle /\ CliIdle /\ InstallIdle /\ BlobIdle /\ UriIdle /\ CliInstallIdle /\ CompleteInstallIdle /\ ConfigIdle /\ AdmissionIdle /\ DeltaStatsIdle /\ RegistryIdle

SpecApi == InitApi /\ [][ApiNext]_vars

InitCliInstall ==
    /\ CliInstallInit /\ DownloadIdle /\ CliIdle /\ InstallIdle /\ BlobIdle /\ UriIdle
    /\ ApiIdle /\ CompleteInstallIdle /\ ConfigIdle /\ AdmissionIdle /\ DeltaStatsIdle /\ RegistryIdle

InitCompleteInstall ==
    /\ CompleteInstallInit /\ DownloadIdle /\ CliIdle /\ InstallIdle /\ BlobIdle /\ UriIdle
    /\ ApiIdle /\ CliInstallIdle /\ ConfigIdle /\ AdmissionIdle /\ DeltaStatsIdle /\ RegistryIdle

SpecCompleteInstall == InitCompleteInstall /\ [][CompleteInstallNext]_vars

InitConfig ==
    /\ ConfigInit /\ DownloadIdle /\ CliIdle /\ InstallIdle /\ BlobIdle /\ UriIdle
    /\ ApiIdle /\ CliInstallIdle /\ CompleteInstallIdle /\ AdmissionIdle /\ DeltaStatsIdle /\ RegistryIdle

SpecConfig == InitConfig /\ [][ConfigNext]_vars

InitAdmission ==
    /\ AdmissionInit /\ DownloadIdle /\ CliIdle /\ InstallIdle /\ BlobIdle /\ UriIdle
    /\ ApiIdle /\ CliInstallIdle /\ CompleteInstallIdle /\ ConfigIdle /\ DeltaStatsIdle /\ RegistryIdle

SpecAdmission == InitAdmission /\ [][AdmissionNext]_vars

SpecCliInstall == InitCliInstall /\ [][CliInstallNext]_vars

InitDeltaStats ==
    /\ DeltaStatsInit /\ DownloadIdle /\ CliIdle /\ InstallIdle /\ BlobIdle /\ UriIdle
    /\ ApiIdle /\ CliInstallIdle /\ CompleteInstallIdle /\ ConfigIdle /\ AdmissionIdle
    /\ RegistryIdle

SpecDeltaStats == InitDeltaStats /\ [][DeltaStatsNext]_vars

InitRegistry ==
    /\ RegistryInit /\ DownloadIdle /\ CliIdle /\ InstallIdle /\ BlobIdle /\ UriIdle
    /\ ApiIdle /\ CliInstallIdle /\ CompleteInstallIdle /\ ConfigIdle /\ AdmissionIdle
    /\ DeltaStatsIdle

SpecRegistry == InitRegistry /\ [][RegistryNext]_vars

\* ------------------------------------------------------------------
\* Claims about RootfsTreeManager::Download

IsPull(e) == e.op = "pull"

PullEvents == SelectSeq(dlog, IsPull)

LastEvent == dlog[Len(dlog)]

\* C1: Download pulls from the remotes strictly in list order, each at most
\* once and none skipped; a successful pull is the last call Download makes
\* and the result is then Ok; Ok is returned only after a successful pull.
C1_SequentialFallback ==
    LET p == PullEvents
    IN  /\ \A k \in 1..Len(p) :
              /\ p[k].idx = k
              /\ p[k].url = remotes[k].baseUrl
        /\ \A k \in 1..Len(p) :
              p[k].ok =>
                 /\ k = Len(p)
                 /\ LastEvent = p[k]
                 /\ \A j \in 1..Len(dlog) : dlog[j].idx <= k
                 /\ dpc = "done"
                 /\ res.status = "Ok"
        /\ (dpc = "done" /\ res.status = "Ok") =>
              \E k \in 1..Len(p) : p[k].ok

\* C1 witness: the second remote succeeded after the first failed, and a
\* third remote was left untouched.
C1_Witness ==
    /\ dpc = "done"
    /\ Len(remotes) = 3
    /\ Len(PullEvents) = 2
    /\ ~PullEvents[1].ok
    /\ PullEvents[2].ok
    /\ res.status = "Ok"

\* ceil(u / b) and floor(n * w / 100) as the numbers they are
CeilDiv(u, b) == CHOOSE n \in 0..u : n * b >= u /\ (n = 0 \/ (n - 1) * b < u)

FloorPercent(n, w) == CHOOSE m \in 0..(n * w) : m * 100 <= n * w /\ n * w < (m + 1) * 100

RequiredBlocks == CeilDiv(update_stat.uncompressedSize, update_stat.storage.blockSize)

AvailableForUpdate ==
    LET s == update_stat.storage
        maxBlocks == FloorPercent(s.blockNumb, update_stat.highWatermark)
        usedBlocks == s.blockNumb - s.freeBlockNumb
    IN  IF maxBlocks - usedBlocks > 0 THEN maxBlocks - usedBlocks ELSE 0

\* C2: when delta statistics were found and requiredBlocks > availableForUpdate,
\* Download has returned DownloadFailed_NoSpace and the admission check is the
\* last thing it did: no pull for that remote, nothing for any later remote.
C2_NoFitReturnsNoSpace ==
    (update_stat.set /\ RequiredBlocks > AvailableForUpdate) =>
        /\ dpc = "done"
        /\ res.status = "DownloadFailed_NoSpace"
        /\ LastEvent.op = "canDeltaFitOnDisk"
        /\ LastEvent.idx = idx
        /\ \A j \in 1..Len(dlog) : dlog[j].idx <= idx
        /\ ~\E j \in 1..Len(dlog) : dlog[j].op = "pull" /\ dlog[j].idx = idx

\* C2 witness: the delta of the first of three remotes did not fit.
C2_Witness ==
    /\ update_stat.set
    /\ RequiredBlocks > AvailableForUpdate
    /\ dpc = "done"
    /\ idx = 1
    /\ Len(remotes) = 3

DiskSpacePattern(d) ==
    \/ /\ Find(d, "would be exceeded, at least")
       /\ Find(d, "min-free-space-size") \/ Find(d, "min-free-space-percent")
    \/ /\ Find(d, "Delta requires")
       /\ Find(d, "free space, but only")

\* C3: a pull that fails with a disk-space description is the last call
\* Download makes, and the result is DownloadFailed_NoSpace, whatever came
\* before it and however many remotes are left.
C3_NoSpacePullStops ==
    LET p == PullEvents
    IN  \A k \in 1..Len(p) :
           (~p[k].ok /\ DiskSpacePattern(p[k].description)) =>
              /\ k = Len(p)
              /\ LastEvent = p[k]
              /\ dpc = "done"
              /\ res.status = "DownloadFailed_NoSpace"

\* C3 witness: after an ordinary failure of the first remote, the second
\* remote ran into min-free-space-percent; a third remote was left.
C3_Witness ==
    /\ dpc = "done"
    /\ Len(remotes) = 3
    /\ Len(PullEvents) = 2
    /\ ~PullEvents[1].ok
    /\ ~DiskSpacePattern(PullEvents[1].description)
    /\ ~PullEvents[2].ok
    /\ Find(PullEvents[2].description, "min-free-space-percent")
    /\ res.status = "DownloadFailed_NoSpace"

RECURSIVE Accumulated(_, _)
Accumulated(p, k) ==
    IF k = 0 THEN <<>> ELSE Accumulated(p, k - 1) \o p[k].description \o <<"\n">>

\* C4: when every remote was pulled and every pull failed with an error that
\* is not a disk-space one, the result is DownloadFailed and its description
\* is the descriptions of the pulls, in the order tried, none missing.
C4_AllFailedAccumulates ==
    LET p == PullEvents
    IN  (/\ dpc = "done"
         /\ Len(p) = Len(remotes)
         /\ \A k \in 1..Len(p) : ~p[k].ok /\ ~DiskSpacePattern(p[k].description)) =>
           /\ res.status = "DownloadFailed"
           /\ res.description = Accumulated(p, Len(p))

\* C4 witness: three remotes failed with two different ordinary errors.
C4_Witness ==
    /\ dpc = "done"
    /\ Len(remotes) = 3
    /\ Len(PullEvents) = 3
    /\ \A k \in 1..3 : ~PullEvents[k].ok /\ ~DiskSpacePattern(PullEvents[k].description)
    /\ PullEvents[1].description # PullEvents[2].description
    /\ res.status = "DownloadFailed"

\* C5: a DownloadFailed_NoSpace of RootfsTreeManager::Download reaches the
\* caller as such: Installer.Download reports DownloadFailed_NoSpace and the
\* install command returns DownloadFailureNoSpace.
C5_NoSpacePreserved ==
    (cpc = "done" /\ res.status = "DownloadFailed_NoSpace") =>
        /\ dr.status = "DownloadFailed_NoSpace"
        /\ cli_status = "DownloadFailureNoSpace"

IsPrimary(r) ==
    /\ r.baseUrl = ostree_server
    /\ r.headers = {<<"X-Correlation-ID", <<TargetName>>>>}

PrimaryLastAndGatewayGuarded ==
    /\ dpc # "idle" =>
          /\ Len(remotes) >= 1
          /\ IsPrimary(remotes[Len(remotes)])
          /\ \A k \in 1..(Len(remotes) - 1) : remotes[k].name = "gcs"
    /\ (\E j \in 1..Len(dlog) : dlog[j].op = "post /download-urls") =>
          /\ ostree_server # <<>>
          /\ StartsWith(ostree_server, Http)
    /\ (gw.asked /\ ~gw.isOk) =>
          /\ Len(remotes) = 1
          /\ IsPrimary(remotes[1])

PrimaryPulled == \E j \in 1..Len(dlog) : dlog[j].op = "pull" /\ dlog[j].url = ostree_server

AdmissionRejected ==
    /\ update_stat.set
    /\ RequiredBlocks > AvailableForUpdate
    /\ res.status = "DownloadFailed_NoSpace"

\* C6 as stated: the primary remote is always the last entry of the list, the
\* gateway is asked only for a non-empty ostree_server that begins with "http",
\* and after a failed gateway request the list is just the primary and Download
\* pulls from it.
C6_PrimaryAlwaysPulled ==
    /\ PrimaryLastAndGatewayGuarded
    /\ (gw.asked /\ ~gw.isOk /\ dpc = "done") => PrimaryPulled

\* C6 amended: as C6, except that after a failed gateway request Download
\* pulls from the primary unless the admission check of the primary's delta
\* says it does not fit, in which case it returns DownloadFailed_NoSpace
\* without a pull.
C6_PrimaryPulledUnlessNoFit ==
    /\ PrimaryLastAndGatewayGuarded
    /\ (gw.asked /\ ~gw.isOk /\ dpc = "done") => (PrimaryPulled \/ AdmissionRejected)

\* C6 witness: the gateway request failed and the primary was pulled.
C6_Witness ==
    /\ gw.asked
    /\ ~gw.isOk
    /\ dpc = "done"
    /\ remotes = <<PrimaryRemote(ostree_server, TargetName)>>
    /\ PrimaryPulled

GatewayOrder == [k \in 1..Len(gw.json) |-> gw.json[k].download_url] \o <<ostree_server>>

\* C7: with a gateway array e0..eN the pulls go to e0, e1, ..., eN and then
\* the primary, in that order.
C7_GatewayArrayOrder ==
    (gw.asked /\ gw.isOk) =>
        \A k \in 1..Len(PullEvents) : PullEvents[k].url = GatewayOrder[k]

\* ------------------------------------------------------------------
\* Claims about RootfsTreeManager::install and the bootloader interlock

Contains(description, fragment) ==
    \E i \in 0..(Len(description) - Len(fragment)) :
        SubSeq(description, i + 1, i + Len(fragment)) = fragment

Called(op) == \E j \in 1..Len(ilog) : ilog[j].op = op

\* C8: verifyBootloaderUpdate is called before anything else install does,
\* never after the tree tool's install; when it returns a non-Ok result install
\* returns that result having called nothing else, and the booted and pending
\* deployments are as they were.
C8_InterlockBeforeInstall ==
    /\ \A j \in 1..Len(ilog) : ilog[j].op = "verifyBootloaderUpdate" => j = 1
    /\ \A i \in 1..Len(ilog) : \A j \in 1..Len(ilog) :
          (ilog[i].op = "install" /\ ilog[j].op = "verifyBootloaderUpdate") => j < i
    /\ (/\ Len(ilog) >= 1
        /\ ilog[1].op = "verifyBootloaderUpdate"
        /\ ilog[1].result_code # "kOk") =>
          /\ Len(ilog) = 1
          /\ ipc = "done"
          /\ ires.result_code = ilog[1].result_code
          /\ current = ilog[1].current
          /\ pending = ilog[1].pending

\* C8 witness: the interlock asked for completion with a pending deployment
\* other than the target in place, and install returned.
C8_Witness ==
    /\ ipc = "done"
    /\ Len(ilog) = 1
    /\ ilog[1].op = "verifyBootloaderUpdate"
    /\ ilog[1].result_code = "kNeedCompletion"
    /\ pending = "H3"
    /\ target = "H2"

TargetVer == lexical_cast(boot.targetVersion.str)

\* the current version as a number: 0 when it is invalid or no number
CurrentVer ==
    LET c == lexical_cast(boot.currentVersion.str)
    IN  IF boot.currentVersion.valid /\ c.ok THEN c.val ELSE 0

InterlockOk ==
    /\ Len(ilog) >= 1
    /\ ilog[1].op = "verifyBootloaderUpdate"
    /\ ilog[1].result_code = "kOk"

TargetVersionNotLower ==
    /\ boot.targetVersion.kind = "ok"
    /\ TargetVer.ok
    /\ TargetVer.val >= CurrentVer

RollbackAttempt ==
    /\ boot.isUpdateSupported
    /\ boot.isRollbackProtectionEnabled
    /\ current # target
    /\ boot.targetVersion.kind = "ok"
    /\ TargetVer.ok
    /\ boot.currentVersion.valid
    /\ lexical_cast(boot.currentVersion.str).ok
    /\ TargetVer.val < CurrentVer

RollbackRejected ==
    /\ ires.result_code = "kInstallFailed"
    /\ Contains(ires.description,
                <<"bootloader rollback from version ">> \o boot.currentVersion.str
                \o <<" to ">> \o boot.targetVersion.str)

\* C10 as stated: with bootloader update supported, rollback protection on,
\* current.hash # target.hash and a target version below the current one,
\* install returns InstallFailed naming the rollback and never calls the tree
\* tool's install.
C10_RollbackInstallFailed ==
    RollbackAttempt =>
        /\ ~Called("install")
        /\ ipc = "done" => RollbackRejected

\* C10 amended: under the same conditions the tree tool's install is never
\* called; install returns InstallFailed naming the rollback unless UpdateBlock
\* is on and a bootloader update is in progress, and then it returns
\* NeedCompletion.
C10_RollbackInstallFailedUnlessBlocked ==
    RollbackAttempt =>
        /\ ~Called("install")
        /\ ipc = "done" =>
              IF cfg_UpdateBlock /\ boot.isUpdateInProgress
              THEN ires.result_code = "kNeedCompletion"
              ELSE RollbackRejected

\* C10 witness: current version 5, target version 4, install returned
\* InstallFailed.
C10_Witness ==
    /\ RollbackAttempt
    /\ boot.currentVersion.str = <<"5">>
    /\ boot.targetVersion.str = <<"4">>
    /\ ipc = "done"
    /\ RollbackRejected

BootloaderUpdateBlocked ==
    /\ cfg_UpdateBlock
    /\ boot.isUpdateSupported
    /\ boot.isUpdateInProgress

\* C11 as stated: with UpdateBlock on, bootloader update supported and a
\* bootloader update in progress, install never calls the tree tool's install,
\* whatever the target and the booted and pending deployments are.
C11_BlockedNeverInstalls ==
    BootloaderUpdateBlocked => ~Called("install")

\* C11 amended: under the same conditions and a target other than the booted
\* deployment, install never calls the tree tool's install and returns
\* NeedCompletion.
C11_BlockedUnlessTargetIsCurrent ==
    (BootloaderUpdateBlocked /\ current # target) =>
        /\ ~Called("install")
        /\ ipc = "done" => ires.result_code = "kNeedCompletion"

\* C11 witness: install of a new target returned NeedCompletion from the
\* interlock while rollback protection would have let the target through.
C11_Witness ==
    /\ BootloaderUpdateBlocked
    /\ current # target
    /\ ~boot.isRollbackProtectionEnabled
    /\ pending = ""
    /\ ipc = "done"
    /\ ires.result_code = "kNeedCompletion"
    /\ ~Called("install")

\* the pending deployment as it was when install was entered
EntryPending == IF ilog = <<>> THEN pending ELSE ilog[1].pending

ShortCircuited ==
    /\ Len(ilog) >= 1
    /\ ilog[1].op = "verifyBootloaderUpdate"
    /\ ilog[1].result_code # "kOk"

DiffersFromTarget ==
    \/ current # target
    \/ EntryPending # "" /\ EntryPending # target

\* C12: install calls the tree tool's install exactly when the interlock did
\* not short-circuit and the booted hash differs from the target's or a
\* pending deployment exists whose hash differs from the target's; when
\* neither differs it returns Ok having called none of updateNotify, the tree
\* tool's install and installNotify, and a short-circuit calls none either.
C12_InstallIffNeeded ==
    /\ Called("install") => (DiffersFromTarget /\ ~ShortCircuited)
    /\ ipc = "done" =>
          /\ Called("install") <=> (DiffersFromTarget /\ ~ShortCircuited)
          /\ ~DiffersFromTarget =>
                /\ ires = AlreadyInstalled
                /\ ~Called("updateNotify")
                /\ ~Called("install")
                /\ ~Called("installNotify")
          /\ ShortCircuited =>
                /\ ~Called("updateNotify")
                /\ ~Called("installNotify")

\* C12 witness: the target is both the booted and the pending deployment and
\* install returned Ok without a call.
C12_Witness ==
    /\ ipc = "done"
    /\ current = target
    /\ pending = target
    /\ ilog = <<>>
    /\ ires = AlreadyInstalled

InstallCalls == {j \in 1..Len(ilog) : ilog[j].op = "install"}

PrecededByUpdateNotify(j) == j > 1 /\ ilog[j - 1].op = "updateNotify"

FollowedByInstallNotify(j) == j < Len(ilog) /\ ilog[j + 1].op = "installNotify"

\* C13 as stated: every call of the tree tool's install comes right after an
\* updateNotify, and by the time install has returned an installNotify has
\* followed it, whatever the result of the tree tool's install.
C13_NotifyAroundInstall ==
    \A j \in InstallCalls :
        /\ PrecededByUpdateNotify(j)
        /\ ipc = "done" => FollowedByInstallNotify(j)

\* C13 amended: every call of the tree tool's install comes right after an
\* updateNotify; when its result is not InstallFailed an installNotify has
\* followed it by the time install has returned, and when it is InstallFailed
\* install returns that result with the tree tool's install as its last call.
C13_NotifyAroundInstallUnlessFailed ==
    \A j \in InstallCalls :
        /\ PrecededByUpdateNotify(j)
        /\ ipc = "done" =>
              IF ilog[j].result_code = "kInstallFailed"
              THEN j = Len(ilog) /\ ires.result_code = "kInstallFailed"
              ELSE FollowedByInstallNotify(j)

\* C13 witness: install of a new target returned NeedCompletion after
\* updateNotify, the tree tool's install and installNotify.
C13_Witness ==
    /\ ipc = "done"
    /\ current # target
    /\ InstallCalls # {}
    /\ \A j \in InstallCalls :
          /\ ilog[j].result_code = "kNeedCompletion"
          /\ PrecededByUpdateNotify(j)
          /\ FollowedByInstallNotify(j)
    /\ ires.result_code = "kNeedCompletion"

Ops == [j \in 1..Len(ilog) |-> ilog[j].op]

PendingUndeploy ==
    /\ current = "H1"
    /\ target = "H1"
    /\ EntryPending \in Hashes \ {"H1"}

\* C14: with the booted deployment H1, a pending deployment of another hash
\* and target H1, install calls the tree tool's install; when that returns
\* NeedCompletion install returns Ok "OSTree hash already installed, same as
\* current" and its calls are updateNotify, the tree tool's install,
\* installNotify and updateNotify again, nothing else.
C14_PendingUndeploy ==
    (PendingUndeploy /\ ipc = "done") =>
        /\ Called("install")
        /\ (\E j \in InstallCalls : ilog[j].result_code = "kNeedCompletion") =>
              /\ ires.result_code = "kOk"
              /\ ires.description = <<"OSTree hash already installed, same as current">>
              /\ Ops = <<"updateNotify", "install", "installNotify", "updateNotify">>

\* C14 witness: the pending deployment H2 was undeployed by an install of H1
\* whose tree tool returned NeedCompletion.
C14_Witness ==
    /\ PendingUndeploy
    /\ EntryPending = "H2"
    /\ ipc = "done"
    /\ Len(ilog) = 4
    /\ ilog[2].op = "install"
    /\ ilog[2].result_code = "kNeedCompletion"
    /\ ires.result_code = "kOk"

\* the result code of the invocation of install before the one under way
PreviousResult ==
    LET j == CHOOSE k \in Returns : \A m \in Returns : m <= k
    IN  ilog[j].result_code

\* install was invoked again on the same target and has returned
InstalledAgain == Returns # {} /\ ipc = "done"

BlobFailed == bpc = "done" /\ bres # "returned"

BlobSucceeded == bpc = "done" /\ bres = "returned"

\* C16: when downloadBlob has returned with an error, whichever it is, there
\* is no file at the output path.
C16_FailedBlobLeavesNoFile ==
    BlobFailed => ~output_file.exists

\* C17: when downloadBlob has returned without an error, the file at the
\* output path holds exactly expected_size bytes whose digest is
\* uri.digest.hash; and while the file is open for the transfer it never holds
\* more than expected_size bytes.
C17_SucceededBlobIsExpected ==
    /\ BlobSucceeded =>
          /\ output_file.exists
          /\ Len(output_file.bytes) = expected_size
          /\ to_lower_copy(getHexDigest(output_file.bytes)) = digest_hash
    /\ output_file.is_open => Len(output_file.bytes) <= expected_size

\* C17 witness: a blob of three bytes was downloaded.
C17_Witness ==
    /\ BlobSucceeded
    /\ expected_size = 3
    /\ output_file.bytes = <<"a", "b", "a">>

\* ------------------------------------------------------------------
\* Claims about Docker::Uri::parseUri

Parsed == upc = "done" /\ parsed.ok

Rejected == upc = "done" /\ ~parsed.ok /\ parsed.what[1] = "std::invalid_argument"

Reconstructed ==
    parsed.registryHostname \o <<"/">> \o parsed.factory \o <<"/">> \o parsed.app
    \o <<"@">> \o Type \o parsed.digest.hash_

\* C18: when parseUri succeeds, host "/" factory "/" app "@sha256:" hash put
\* together from the fields it returns is the string it was given, and repo is
\* factory "/" app.
C18_ParseRoundTrip ==
    Parsed =>
        /\ Reconstructed = uri
        /\ parsed.repo = parsed.factory \o <<"/">> \o parsed.app

LowerHexDigits ==
    {"0", "1", "2", "3", "4", "5", "6", "7", "8", "9", "a", "b", "c", "d", "e", "f"}

\* the part of uri in front of its first '@' and the part behind it
BeforeAt == substr(uri, 0, find(uri, "@"))

AfterAt == substr(uri, find(uri, "@") + 1, npos)

HasAt == find(uri, "@") # npos

NoSlashBeforeAt == HasAt /\ \A i \in 1..Len(BeforeAt) : BeforeAt[i] # "/"

OtherDigestType == HasAt /\ to_lower_copy(substr(AfterAt, 0, Len(Type))) # Type

HashNot64 == HasAt /\ ~OtherDigestType /\ Len(AfterAt) - Len(Type) # HashSize

\* C19: the digest of a Uri that parseUri returns begins with "sha256:" and
\* its hash is 64 characters, each a lower-case hexadecimal digit; a string
\* with no '/' in front of the '@', with another digest type, or with a hash
\* that is not 64 characters long is rejected with std::invalid_argument.
C19_DigestWellFormed ==
    /\ Parsed =>
          /\ substr(parsed.digest.digest_, 0, Len(Type)) = Type
          /\ Len(parsed.digest.hash_) = HashSize
          /\ \A i \in 1..Len(parsed.digest.hash_) : parsed.digest.hash_[i] \in LowerHexDigits
    /\ (upc = "done" /\ (NoSlashBeforeAt \/ OtherDigestType \/ HashNot64)) => Rejected

\* ------------------------------------------------------------------
\* Claims about AkliteClient::CheckIn

CheckedIn == apc = "done" /\ checkin.status \in {"Ok", "OkCached"}

Eligible(t) ==
    /\ t.tags \cap tags # {}
    /\ \E k \in 1..Len(t.hardwareIds) :
          \/ t.hardwareIds[k] = primary_ecu_hardware_id
          \/ \E j \in 1..Len(secondary_hwids_) : t.hardwareIds[k] = secondary_hwids_[j]

Listed(t) == \E i \in 1..Len(checkin.targets) : checkin.targets[i].Name = t.filename

\* the version CheckIn is to give a target: the number its custom version
\* is, or -1 when that string is no number an int can hold
ExpectedVersion(t) ==
    LET v == stoi(t.custom_version)
    IN  IF v.kind = "ok" THEN v.val ELSE -1

\* C20: CheckIn never ends in an exception over a version string; the list of
\* a CheckIn that succeeded holds a target of the TUF metadata exactly when the
\* target carries a configured tag and one of its hardware ids is the
\* primary's or a configured secondary's, a target whose version is no
\* integer included, with version -1.
C20_CheckInFilter ==
    /\ apc = "done" => checkin.status \in {"Ok", "OkCached", "Failed"}
    /\ CheckedIn =>
          /\ \A k \in 1..Len(allTargets) : Listed(allTargets[k]) <=> Eligible(allTargets[k])
          /\ \A k \in 1..Len(allTargets) : \A i \in 1..Len(checkin.targets) :
                checkin.targets[i].Name = allTargets[k].filename =>
                    checkin.targets[i].Version = ExpectedVersion(allTargets[k])

\* C21: the list of a CheckIn that succeeded is in non-decreasing order of
\* version: no entry has a version below that of the entry before it.
C21_ListNonDecreasing ==
    CheckedIn =>
        \A i \in 1..(Len(checkin.targets) - 1) :
            checkin.targets[i].Version <= checkin.targets[i + 1].Version

\* C21 witness: the metadata held version 2 before version 1 and the list has
\* them the other way round.
C21_Witness ==
    /\ CheckedIn
    /\ Len(allTargets) = 2
    /\ allTargets[1].custom_version = <<"2">>
    /\ allTargets[2].custom_version = <<"1">>
    /\ Len(checkin.targets) = 2
    /\ checkin.targets[1].Name = "T2"
    /\ checkin.targets[2].Name = "T1"

GotLatest == apc = "latest"

\* the hardware id GetLatest is to look for
RequestedHwid == IF latest.hwid = "" THEN checkin.primary_hwid ELSE latest.hwid

\* the entries of the list whose first hardware id is the requested one
Candidates ==
    {i \in 1..Len(checkin.targets) :
        checkin.targets[i].Custom.hardwareIds[1] = RequestedHwid}

\* C22: GetLatest(hwid) returns an entry of the CheckIn list whose first
\* hardware id is hwid (the primary's for an empty hwid) and whose version no
\* other such entry exceeds; when the list has no such entry it throws.
C22_GetLatestIsMaximum ==
    GotLatest =>
        IF Candidates = {}
        THEN latest.thrown # ""
        ELSE /\ latest.thrown = ""
             /\ \E i \in Candidates : latest.target = checkin.targets[i]
             /\ \A i \in Candidates : checkin.targets[i].Version <= latest.target.Version

\* C22 witness: of two entries for the secondary's hardware id, the one with
\* the higher version, which came first in the metadata, was returned.
C22_Witness ==
    /\ GotLatest
    /\ latest.hwid = "s"
    /\ Cardinality(Candidates) = 2
    /\ Len(allTargets) = 2
    /\ allTargets[1].custom_version = <<"2">>
    /\ allTargets[2].custom_version = <<"1">>
    /\ latest.thrown = ""
    /\ latest.target.Name = "T1"
    /\ latest.target.Version = 2

\* ------------------------------------------------------------------
\* Claims about aklite::cli::Install

KCalled(op) == \E i \in 1..Len(klog) : klog[i] = op

TargetChosen == cli_target # UnknownTarget

LowerThanCurrent == cli_target.Version < client.GetCurrent.Version

\* C23: once a target with a lower version than the current one is chosen,
\* without force the command has returned InstallDowngradeAttempt and called
\* neither Download nor Install of an installer; with force it is not refused
\* and goes on to obtain the installer and download.
C23_DowngradeRefusedUnlessForced ==
    (TargetChosen /\ LowerThanCurrent) =>
        IF cli_args.force_downgrade
        THEN /\ install_status # "InstallDowngradeAttempt"
             /\ kpc \in {"installer", "install", "done"}
             /\ kpc # "installer" => KCalled("Installer")
        ELSE /\ kpc = "done"
             /\ install_status = "InstallDowngradeAttempt"
             /\ ~KCalled("Installer")
             /\ ~KCalled("Download")
             /\ ~KCalled("Install")

\* C23 witness: version 1 was requested on a device running version 2, without
\* force; the command returned InstallDowngradeAttempt.
C23_Witness ==
    /\ TargetChosen
    /\ cli_args.version = 1
    /\ cli_target.Version = 1
    /\ client.GetCurrent.Version = 2
    /\ ~cli_args.force_downgrade
    /\ install_status = "InstallDowngradeAttempt"

Started == kpc \notin {"idle", "start"}

\* C24: a command started while an installation is in progress has returned
\* InstallationInProgress after asking for nothing but the pending target: no
\* check-in, no installer, no download and no install.
C24_InProgressStopsInstall ==
    (Started /\ client.IsInstallationInProgress) =>
        /\ kpc = "done"
        /\ install_status = "InstallationInProgress"
        /\ cli_target = UnknownTarget
        /\ \A op \in {"GetCurrent", "CheckIn", "CheckInLocal", "GetLatest", "Installer",
                       "Download", "Install"} : ~KCalled(op)

\* C24 witness: the command was started with a pending target and a check-in
\* that would have listed a target, and returned InstallationInProgress.
C24_Witness ==
    /\ Started
    /\ client.IsInstallationInProgress
    /\ client.CheckIn.status = "Ok"
    /\ Len(client.CheckIn.targets) > 0
    /\ install_status = "InstallationInProgress"

\* ------------------------------------------------------------------
\* Claims about LiteInstall::Download

DownloadReturned == cpc # "idle"

COps == [j \in 1..Len(clog) |-> clog[j].op]

\* C25: LiteInstall::Download first downloads; after a failed download it
\* returns DownloadFailed having neither verified nor notified; after a
\* successful one it verifies, once; a failed verification is followed by
\* exactly one notifyInstallFinished, with kVerificationFailed, and the return
\* of VerificationFailed; Ok is returned only after a successful download and
\* a successful verification, without any notification.
C25_VerifyAfterDownload ==
    DownloadReturned =>
        /\ Len(clog) >= 1
        /\ clog[1].op = "download"
        /\ IF clog[1].rc # "kOk"
           THEN /\ COps = <<"download">>
                /\ dr.status = "DownloadFailed"
           ELSE /\ Len(clog) >= 2
                /\ clog[2].op = "VerifyTarget"
                /\ IF clog[2].rc # "kGood"
                   THEN /\ COps = <<"download", "VerifyTarget", "notifyInstallFinished">>
                        /\ clog[3].rc = "kVerificationFailed"
                        /\ dr.status = "VerificationFailed"
                   ELSE /\ COps = <<"download", "VerifyTarget">>
                        /\ dr.status = "Ok"

\* C25 witness: the download succeeded, the verification did not, and
\* VerificationFailed was returned after one notification.
C25_Witness ==
    /\ DownloadReturned
    /\ res.status = "Ok"
    /\ dr.status = "VerificationFailed"
    /\ Len(clog) = 3
    /\ clog[3] = CEv("notifyInstallFinished", "kVerificationFailed")

\* ------------------------------------------------------------------
\* Claims about aklite::cli::CompleteInstall

CompleteReturned == complete_pc = "done"

\* the answers the calls of op got
MAnswers(op) == {complete_log[j].rc : j \in {i \in 1..Len(complete_log) : complete_log[i].op = op}}

FinalizationFailed ==
    /\ CompleteReturned
    /\ complete_client.IsInstallationInProgress
    /\ MAnswers("CompleteInstallation") = {"Failed"}

HashesDiffer ==
    complete_client.GetCurrent.Sha256Hash # complete_client.GetPendingTarget.Sha256Hash

\* C26: after a failed finalization on a device booted on another hash than
\* the pending one, the command returned InstallRollbackOk when there were no
\* apps to sync or the app sync install answered Ok, InstallRollbackFailed
\* otherwise, and asked for no rollback target and no installer of one.
C26_BootloaderRollback ==
    (FinalizationFailed /\ HashesDiffer) =>
        /\ MAnswers("CheckAppsInSync") # {}
        /\ complete_status =
              IF MAnswers("CheckAppsInSync") = {"nullptr"} \/ MAnswers("Install") = {"Ok"}
              THEN "InstallRollbackOk"
              ELSE "InstallRollbackFailed"
        /\ MAnswers("GetRollbackTarget") = {}
        /\ MAnswers("Installer") = {}

\* C26 witness: the app sync after a bootloader-driven rollback failed and
\* the command returned InstallRollbackFailed.
C26_Witness ==
    /\ FinalizationFailed
    /\ HashesDiffer
    /\ MAnswers("CheckAppsInSync") = {"ctx"}
    /\ MAnswers("Install") = {"Failed"}
    /\ complete_status = "InstallRollbackFailed"

\* C27 as stated: after a failed finalization on a device booted on the
\* pending hash, the command returned InstallRollbackNeedsReboot when the
\* install of the rollback target answered NeedsCompletion and
\* InstallRollbackFailed in every other case.
C27_AppRollbackFailedOtherwise ==
    (FinalizationFailed /\ ~HashesDiffer) =>
        complete_status =
            IF MAnswers("Install") = {"NeedsCompletion"}
            THEN "InstallRollbackNeedsReboot"
            ELSE "InstallRollbackFailed"

\* C27: after a failed finalization on a device booted on the pending hash,
\* the command returned InstallRollbackNeedsReboot when the install of the
\* rollback target answered NeedsCompletion, UnknownError when no installer
\* was obtained for the rollback target, and InstallRollbackFailed when no
\* rollback target was found or its install answered anything else; no app
\* sync was attempted.
C27_AppRollbackUnknownErrorWithoutInstaller ==
    (FinalizationFailed /\ ~HashesDiffer) =>
        /\ MAnswers("GetRollbackTarget") # {}
        /\ complete_status =
              IF MAnswers("Install") = {"NeedsCompletion"}
              THEN "InstallRollbackNeedsReboot"
              ELSE IF MAnswers("Installer") = {"nullptr"}
              THEN "UnknownError"
              ELSE "InstallRollbackFailed"
        /\ MAnswers("CheckAppsInSync") = {}

\* C27 witness: a rollback target was found but no installer for it, and the
\* command returned UnknownError.
C27_Witness ==
    /\ FinalizationFailed
    /\ ~HashesDiffer
    /\ MAnswers("GetRollbackTarget") \cap {"T1", "T2", "T3"} # {}
    /\ MAnswers("Installer") = {"nullptr"}
    /\ complete_status = "UnknownError"

CompleteStatusCodes ==
    {"Ok", "InstallNeedsReboot", "OkNeedsRebootForBootFw", "NoPendingInstallation",
     "InstallRollbackOk", "InstallRollbackFailed", "InstallRollbackNeedsReboot",
     "UnknownError"}

Constructed == wpc = "done"

IsNumeral(str) ==
    /\ str # <<>>
    /\ LET body == IF str[1] \in {"-", "+"} THEN Tail(str) ELSE str
       IN  /\ body # <<>>
           /\ \A k \in 1..Len(body) : body[k] \in Digits

\* the magnitude a digit string denotes, or 1000 when it is larger
RECURSIVE Magnitude(_, _)
Magnitude(digits, acc) ==
    IF digits = <<>> THEN acc
    ELSE LET next == 10 * acc + DigitVal(Head(digits))
         IN  Magnitude(Tail(digits), IF next > 1000 THEN 1000 ELSE next)

\* the integer a numeral denotes, large magnitudes cut to 1000
Denoted(str) ==
    IF str[1] = "-" THEN 0 - Magnitude(Tail(str), 0)
    ELSE IF str[1] = "+" THEN Magnitude(Tail(str), 0)
    ELSE Magnitude(str, 0)

\* the numeral is one lexical_cast<unsigned int> takes: its magnitude is at
\* most UINT_MAX
Parsable(str) == IsNumeral(str) /\ FitsUnsigned(IF str[1] \in {"-", "+"} THEN Tail(str) ELSE str)

\* C29: the constructed watermark is within [50, 95]; a configured numeral
\* denoting less than 50 gives 50, one denoting more than 95 gives 95, one in
\* between is kept, and a value that does not parse, or none, gives 90.
C29_WatermarkClamped ==
    Constructed =>
        LET val_str == extra.SysrootStorageWatermark.at
            mark == Config.SysrootStorageWatermark
        IN  /\ mark \in 50..95
            /\ IF extra.SysrootStorageWatermark.count = 1 /\ Parsable(val_str)
               THEN mark = IF Denoted(val_str) < 50 THEN 50
                           ELSE IF Denoted(val_str) > 95 THEN 95
                           ELSE Denoted(val_str)
               ELSE mark = 90

\* ------------------------------------------------------------------
\* Claims about RootfsTreeManager::canDeltaFitOnDisk

Decided == fpc = "done"

\* C30: in every admission decision requiredBlocks is the ceiling of
\* uncompressedSize / blockSize, availableForUpdate is
\* max(0, floor(totalBlocks * watermark / 100) - (totalBlocks - freeBlocks)),
\* which is never negative, and the delta is said to fit exactly when
\* requiredBlocks <= availableForUpdate.
C30_AdmissionArithmetic ==
    Decided =>
        LET s == fit_in.storage
            u == fit_in.delta_stat.uncompressedSize
            required == fit_out.blocks_required_by_delta
            available == fit_out.max_blocks_available_for_update
            floored == (s.blockNumb * fit_in.highWatermark) \div 100
            used == s.blockNumb - s.freeBlockNumb
        IN  /\ required * s.blockSize >= u
            /\ required * s.blockSize < u + s.blockSize
            /\ available >= 0
            /\ available = IF floored - used > 0 THEN floored - used ELSE 0
            /\ fit_out.returned <=> (required <= available)

\* ------------------------------------------------------------------
\* Claims about RootfsTreeManager::downloadDeltaStats

StatsReturned == stats_pc = "done"

LowerHex == <<"0", "1", "2", "3", "4", "5", "6", "7", "8", "9", "a", "b", "c", "d", "e", "f">>

\* the lower-case hex digest of the bytes fetched
FetchedDigest == <<LowerHex[HasherState(stats_resp.body) + 1]>>

\* C31: downloadDeltaStats returns None without any HTTP request when
\* ref.size exceeds 1 MiB (1048576 bytes); within the cap it returns the JSON
\* only if the fetched byte count equals ref.size and the lower-case hex
\* digest of the fetched bytes equals ref.sha256, and None otherwise.
C31_DeltaStatsCapSizeAndHash ==
    StatsReturned =>
        /\ stats_ref.size > 1048576 => (stats_json = nullValue /\ stats_log = <<>>)
        /\ stats_ref.size <= 1048576 =>
              IF Len(stats_resp.body) = stats_ref.size /\ FetchedDigest = stats_ref.sha256
              THEN stats_json \in {stats_resp.json, nullValue}
              ELSE stats_json = nullValue

C31_Witness ==
    /\ StatsReturned
    /\ stats_json # nullValue
    /\ stats_ref.size = 2
    /\ Len(stats_log) = 1

\* ------------------------------------------------------------------
\* Claims about RootfsTreeManager::verifyBootloaderUpdate

\* the string is a u64: a numeral that denotes no negative number
IsU64(str) == IsNumeral(str) /\ Denoted(str) >= 0

\* the six rules, in order
InterlockRules ==
    IF cfg_UpdateBlock /\ boot.isUpdateInProgress THEN "kNeedCompletion"
    ELSE IF ~boot.isRollbackProtectionEnabled THEN "kOk"
    ELSE IF boot.targetVersion.kind = "invalid_argument" THEN "kInstallFailed"
    ELSE IF boot.targetVersion.kind = "exception" THEN "kOk"
    ELSE IF ~IsU64(boot.targetVersion.str) THEN "kInstallFailed"
    ELSE LET cur_ver == IF boot.currentVersion.valid /\ IsU64(boot.currentVersion.str)
                        THEN Denoted(boot.currentVersion.str)
                        ELSE 0
         IN  IF Denoted(boot.targetVersion.str) < cur_ver THEN "kInstallFailed" ELSE "kOk"

\* C32: verifyBootloaderUpdate returns the result of six ordered rules, the
\* first that matches: (1) UpdateBlock on and an update in progress gives
\* NeedCompletion; (2) rollback protection disabled gives Ok; (3) a malformed
\* target version file gives InstallFailed, any other lookup failure Ok; (4) a
\* target version that is no u64 gives InstallFailed; (5) a current version
\* that is invalid or missing counts as 0; (6) a target version below the
\* current one gives InstallFailed, anything else Ok.
C32_InterlockRules ==
    (Len(ilog) >= 1 /\ ilog[1].op = "verifyBootloaderUpdate") =>
        ilog[1].result_code = InterlockRules

\* ------------------------------------------------------------------
\* Claims about the delta statistics in RootfsTreeManager::Download

\* the size check was skipped at event i: no delta statistics, or the
\* admission computation threw
SizeCheckSkipped(i) ==
    \/ dlog[i].op = "getDeltaStatIfAvailable" /\ ~dlog[i].ok
    \/ dlog[i].op = "canDeltaFitOnDisk throws"

\* a pull failed or the admission check refused the delta
FailureCause(i) ==
    \/ dlog[i].op = "pull" /\ ~dlog[i].ok
    \/ dlog[i].op = "canDeltaFitOnDisk" /\ ~dlog[i].ok

\* C33: for each remote tried, when no delta statistics are obtained (no
\* reference, failed download or lookup) or the admission computation throws,
\* Download goes on to the tree tool's pull for that remote without a size
\* check; a failed DownloadResult always comes from a failed pull or a
\* refused admission, never from missing delta statistics alone.
C33_NoStatsNoSizeCheck ==
    /\ \A i \in 1..Len(dlog) :
          SizeCheckSkipped(i) =>
              IF i < Len(dlog)
              THEN dlog[i + 1].op = "pull" /\ dlog[i + 1].idx = dlog[i].idx
              ELSE dpc = "pull" /\ idx = dlog[i].idx
    /\ res.status # "Ok" => \E i \in 1..Len(dlog) : FailureCause(i)

C33_Witness ==
    /\ dpc = "done"
    /\ res.status = "Ok"
    /\ \E i \in 1..(Len(dlog) - 1) :
          dlog[i].op = "getDeltaStatIfAvailable" /\ ~dlog[i].ok /\ dlog[i + 1].op = "pull"
    /\ \E i \in 1..(Len(dlog) - 1) :
          dlog[i].op = "canDeltaFitOnDisk throws" /\ dlog[i + 1].op = "pull"

\* ------------------------------------------------------------------
\* Claims about the requests of Docker::RegistryClient

RegistryRequest(i) == registry_log[i].endpoint \in {"/manifests/", "/blobs/"}

CredsFetch(i) == registry_log[i].endpoint = "auth_creds_endpoint_"

TokenFetch(i) == registry_log[i].endpoint = "/token-auth/"

\* the answer to the fetch at i does not yield a header
FetchFailed(i) ==
    \/ ~registry_log[i].resp.isOk
    \/ CredsFetch(i) /\ (registry_log[i].resp.Username = "" \/ registry_log[i].resp.Secret = "")
    \/ TokenFetch(i) /\ registry_log[i].resp.token = ""

CallEnded(n) == n < registry_calls \/ registry_pc = "idle"

\* C34: every manifest or blob request is preceded, within the same
\* getAppManifest or downloadBlob call, by a credentials fetch and then a
\* token fetch, and carries the token just fetched; when the credentials
\* answer has an empty Username or Secret, the token answer has an empty
\* token, or either request fails, the call fails and issues no manifest or
\* blob request.
C34_FreshAuthBeforeRequest ==
    /\ \A i \in 1..Len(registry_log) :
          RegistryRequest(i) =>
              /\ i >= 3
              /\ TokenFetch(i - 1) /\ registry_log[i - 1].call = registry_log[i].call
              /\ CredsFetch(i - 2) /\ registry_log[i - 2].call = registry_log[i].call
              /\ ~FetchFailed(i - 1) /\ ~FetchFailed(i - 2)
              /\ registry_log[i].authorization = <<"bearer", registry_log[i - 1].resp.token>>
    /\ \A i \in 1..Len(registry_log) :
          ((CredsFetch(i) \/ TokenFetch(i)) /\ FetchFailed(i)) =>
              /\ CallEnded(registry_log[i].call)
              /\ registry_res[registry_log[i].call] \notin {"running", "returned"}
              /\ \A j \in 1..Len(registry_log) :
                    RegistryRequest(j) => registry_log[j].call # registry_log[i].call

\* two calls, each with its own credentials and token fetch, the second
\* with another token
C34_Witness ==
    /\ Len(registry_log) = 6
    /\ RegistryRequest(3)
    /\ RegistryRequest(6)
    /\ registry_log[3].authorization # registry_log[6].authorization
    /\ registry_res = <<"returned", "returned">>

\* ------------------------------------------------------------------
\* Claims about the rollback of aklite::cli::Install

InstallReturned == kpc = "done" /\ Len(install_results) >= 1

InstallFailed == InstallReturned /\ install_results[1] = "Failed"

\* C35: when the installer's Install returns Failed, the command asks for an
\* installer of the previously current target and installs it; it returns
\* InstallRollbackOk if that install returns Ok and InstallRollbackFailed
\* otherwise, also when no installer of the current target is found; after a
\* Failed install it never returns Ok or a needs-reboot success code.
C35_RollbackAfterFailedInstall ==
    /\ InstallFailed =>
          /\ KCalled("Installer(current)")
          /\ IF Len(install_results) = 2
             THEN /\ KCalled("Install(current)")
                  /\ install_status = IF install_results[2] = "Ok"
                                      THEN "InstallRollbackOk"
                                      ELSE "InstallRollbackFailed"
             ELSE /\ ~KCalled("Install(current)")
                  /\ install_status = "InstallRollbackFailed"
          /\ install_status \notin {"Ok", "OkNeedsRebootForBootFw", "InstallNeedsReboot",
                                    "InstallNeedsRebootForBootFw",
                                    "InstallAppsNeedFinalization"}
    /\ (InstallReturned /\ ~InstallFailed) => ~KCalled("Installer(current)")

\* a Failed install followed by a rollback install that needs a reboot
C35_Witness ==
    /\ InstallFailed
    /\ install_results = <<"Failed", "NeedsCompletion">>
    /\ install_status = "InstallRollbackFailed"

\* ------------------------------------------------------------------
\* Claims about the selection by name in aklite::cli::Install

\* the command was given a target name and no version, and has gone through
\* the selection of the target
SelectedByName ==
    /\ cli_args.version = -1
    /\ cli_args.target_name # ""
    /\ ~client.IsInstallationInProgress
    /\ client.CheckIn.status # "Failed"
    /\ kpc \in {"installer", "install", "done"}

NameListed ==
    \E i \in 1..Len(client.CheckIn.targets) :
        client.CheckIn.targets[i].Name = cli_args.target_name

\* C36: invoked with a target name and no version (version = -1), the
\* command selects a target of that name, whatever else the check-in list
\* holds, targets of version -1 (unparsable) included; when no target has
\* the name it returns TufTargetNotFound.
C36_SelectedByName ==
    SelectedByName =>
        IF NameListed
        THEN cli_target.Name = cli_args.target_name
        ELSE install_status = "TufTargetNotFound"

\* ------------------------------------------------------------------
\* Claims about duplicates in the list of AkliteClient::CheckIn

\* the positions of the returned list that hold the k-th target of the TUF
\* metadata
Entries(k) ==
    {i \in 1..Len(checkin.targets) : checkin.targets[i].Name = allTargets[k].filename}

\* C37: each target of the TUF metadata appears at most once in the list
\* CheckIn returns, whatever the target's hardware ids, the primary hardware
\* id and the configured secondary hardware ids are.
C37_NoDuplicateTargets ==
    CheckedIn => \A k \in 1..Len(allTargets) : Cardinality(Entries(k)) <= 1

====
